---------------------------- MODULE Spec2Model ----------------------------
(***************************************************************************)
(* So-Fi (libsofi): the frame codec of sofi_send / sofi_recv, the receive  *)
(* queue between the demodulator thread and sofi_recv, and the send ring   *)
(* between sofi_send and the modulator callback.                           *)
(*                                                                         *)
(* The state machines share the module's variables; each specification     *)
(* drives one of them and leaves the variables of the others at their      *)
(* initial values:                                                         *)
(*   SpecCodec     one packet through sofi_send's encoder, an alteration   *)
(*                 on the air, and sofi_recv's decoder                     *)
(*   Spec          demodulator enqueue against a client's sofi_recv calls  *)
(*   SpecRecvFair  the same with the scheduler's fairness (liveness)       *)
(*   SpecSend      a client's sofi_send calls against the audio callback   *)
(*   SpecDemod     one frame in the input samples through receiver_loop,   *)
(*                 the receive queue and sofi_recv                         *)
(*   SpecDemodPair two frames a gap apart through the same                 *)
(*   SpecDemodLong a tone longer than a raw message through receiver_loop  *)
(*   SpecSelect    one window's strengths through receiver_loop's choice   *)
(*                 of the symbol                                           *)
(*   SpecDuplex    sofi_send, the audio callback in both directions and    *)
(*                 receiver_loop reading what the callback captured        *)
(*   SpecSplit     the audio callback alone, its buffers of any length,    *)
(*                 on a send ring that holds its messages                  *)
(*   SpecLife      sofi_init, the receive side at work, sofi_destroy       *)
(*   SpecLifeFair  the same with the scheduler's fairness (liveness)       *)
(*   SpecLifeSend  sofi_init, the send side at work, sofi_destroy          *)
(*   SpecRelife    sofi_init and sofi_destroy called again and again       *)
(*   SpecCancel    sofi_destroy against a demodulator that fills the       *)
(*                 receive queue                                           *)
(*   SpecFront     the front end sofinc: main, sender_loop, receiver_loop  *)
(***************************************************************************)
EXTENDS Integers, Sequences, FiniteSets, TLC

VARIABLES
    symbol_width,       \* libsofi.c:115, set by sofi_init
    \* ---- codec ----
    c_stage,            \* "packet" -> "sent" -> "air" -> "done"
    c_packet,           \* the caller's struct sofi_packet given to sofi_send
    c_msg,              \* the struct raw_message (its symbols; len = Len)
    c_alter,            \* what the channel did to the message
    c_out,              \* what sofi_recv's loop body did with c_msg
    \* ---- receive queue (libsofi.c:47-51) ----
    recv_queue,         \* the RECV_QUEUE_CAP slots
    recv_queue_start,
    recv_queue_size,
    recv_queue_lock,    \* owner of the mutex: "free", "demod" or "client"
    d_pc,               \* demodulator thread: "loop", "lock", "body", "unlock";
                        \* "gone" once it has ended inside recv_queue_enqueue
    d_msg,              \* receiver_loop's msg, handed to recv_queue_enqueue
    d_count,            \* frames the demodulator has closed so far
    d_limit,            \* frames it closes in this run
    d_script,           \* what the demodulator hears, frame after frame
    r_pc,               \* client in sofi_recv: "idle", "lock", "check",
                        \* "waiting", "woken", "unlock", "decode"
    r_msg,              \* sofi_recv's msg
    r_packet,           \* the caller's *packet
    h_accepted,         \* history: the messages stored by enqueue, in order
    h_dropped,          \* history: the messages dropped on overflow
    h_dequeued,         \* history: the messages copied out by dequeue
    h_delivered,        \* history: the packets sofi_recv returned, each with
                        \* the message it was decoded from
    \* ---- sender (libsofi.c:98-99, 143-152) ----
    sample_rate,
    baud,
    s_ring,             \* data.sender.buffer: the SENDER_BUFFER_SIZE slots
    s_widx,             \* its write index
    s_ridx,             \* its read index
    s_state,            \* data.sender.state
    s_msg,              \* data.sender.msg: the slot it points into
    s_index,            \* data.sender.index
    s_symbol,           \* data.sender.symbol
    s_frame,            \* data.sender.frame
    cb_pc,              \* audio thread: "out" (not in the callback) or "in"
    cb_i,               \* sender_callback's i
    cb_n,               \* frames_per_buffer of the running callback
    t_pc,               \* client in sofi_send: "idle", "write", "copy", "publish"
    t_msg,              \* sofi_send's msg
    t_count,            \* sofi_send calls made so far
    h_sent,             \* history: the messages of the sofi_send calls, in call order
    h_txdone,           \* history: the symbol runs the modulator completed
    h_txcur,            \* history: the symbols of the run in progress
    t_limit,            \* sofi_send calls the client makes in this run
    t_blocked,          \* the last ring write of the running sofi_send found no room
    h_runs,             \* history: the sine samples of the message in progress
                        \* (or of the last one), as <<symbol, samples>> runs
    h_zero,             \* history: zero samples written in TRANSMITTING and
                        \* INTERPACKET_GAP since the last sine sample
    h_gaps,             \* history: h_zero at the start of each message but the first
    s_phase,            \* data.sender.phase, in units of 2*pi / sample_rate
    cb_busy,            \* a frame of the running callback was handled in
                        \* TRANSMITTING or INTERPACKET_GAP
    cb_first,           \* sender_callback's local first
    h_out,              \* history: the samples sender_callback has written,
                        \* but for the zeros written while idle with an
                        \* empty ring
    \* ---- life cycle (libsofi.c:30-35, 98-100, 316-486) ----
    params,             \* the struct sofi_init_parameters given to sofi_init
    recv_window_factor, \* libsofi.c:100, as <<numerator, denominator>>
    l_pc,               \* main thread: "start", "up", "failed", then in
                        \* sofi_destroy "cancel", "join", "drain", "stop",
                        \* and "down" (or "crashed")
    init_ret,           \* what sofi_init returned (NotReturned before it has)
    stream,             \* the PortAudio stream: "none", "running", "closed"
    receiver_thread,    \* "none" (never created), "running", "cancelled"
                        \* (cancellation pending), "joined"
    h_life,             \* history: what sofi_destroy did to things sofi_init
                        \* never set up, and the frees of a freed buffer
    sender_buffer_ptr,  \* libsofi.c:32-34: "null", "allocated", or "freed"
    receiver_buffer_ptr, \* (the pointer still holds the address of a
    window_buffer,      \* buffer that has been freed)
    pa_initialized,     \* Pa_Initialize has been called, Pa_Terminate not
    debug_level,        \* libsofi.c:17
    l_calls,            \* sofi_init calls made so far
    l_limit,            \* sofi_init calls the main thread makes in this run
    \* ---- demodulator (libsofi.c:246-314) and its input ----
    rx_packet,          \* the packet whose frame is in the input samples
    rx_frame,           \* the symbols of that frame
    rx_hold,            \* samples each symbol of the frame lasts
    rx_lead,            \* silent samples before the frame
    rx_tail,            \* silent samples after the frame
    rx_pos,             \* samples receiver_loop has read from the receive ring
    rx_state,           \* receiver_loop's state: "LISTEN" or "DEMODULATE"
    rx_msg,             \* receiver_loop's msg (its symbols; len = Len)
    rx_gap,             \* silent samples between the frame and a second one
    rx_packet2,         \* the packet of the second frame
    rx_frame2,          \* the symbols of the second frame (none: <<>>)
    rb_written,         \* samples written to data.receiver.buffer so far
                        \* (rx_pos of them have been read)
    h_heard,            \* history: a buffer written to the receive ring held a
                        \* sample captured while the modulator was not idle
    h_rx,               \* history: what rounds of receiver_loop have done
    \* ---- symbol selection (libsofi.c:273-290) ----
    sel_in,             \* the strengths of the symbols in one window
    sel_out,            \* the symbol chosen (-1: silence), or NotClassified
    \* ---- the front end (sofinc.c) ----
    f_pc,               \* main: "init", "create_sender", "create_receiver",
                        \* "undo_sender", "join_sender", "join_receiver",
                        \* "out", "exit" (or "crashed", the whole process)
    f_status,           \* main's status (0: EXIT_SUCCESS, 1: EXIT_FAILURE)
    keep_open,          \* sofinc.c:14
    max_message_length, \* sofinc.c:15
    nc_sender,          \* params.sender of main
    nc_receiver,        \* params.receiver of main
    sender_thread,      \* sofinc.c:17: "unset", "created", "joined"
    nc_receiver_thread, \* sofinc.c:17, receiver_thread: the same
    fs_pc,              \* sender_loop: "none" (no thread), "read", "send",
                        \* "last", "cancel", "done", "cancelled"
    fs_cancel,          \* a cancellation of the sender thread is pending
    fs_packet,          \* sender_loop's packet (its payload; len = Len)
    fs_error,           \* ferror(stdin)
    fs_status,          \* sender_loop's status (0 or -1)
    f_stdin,            \* the bytes not yet read from standard input
    h_read,             \* history: the non-empty chunks fread returned
    f_sent,             \* history: the packets given to sofi_send
    fr_pc,              \* receiver_loop: "none", "recv", "check", "write",
                        \* "cancel", "done", "cancelled"
    fr_cancel,          \* a cancellation of the receiver thread is pending
    fr_packet,          \* receiver_loop's packet
    fr_status,          \* receiver_loop's status (0 or -1)
    f_incoming,         \* the packets sofi_recv is still to return
    h_recvd,            \* history: the packets sofi_recv returned
    f_stdout,           \* the bytes written to standard output
    f_stdout_open,      \* standard output has not been closed
    h_front             \* history: pthread_cancel calls on a pthread_t that
                        \* names no thread

codecVars == <<c_stage, c_packet, c_msg, c_alter, c_out>>

sendVars == <<sample_rate, baud, s_ring, s_widx, s_ridx, s_state, s_msg,
              s_index, s_symbol, s_frame, cb_pc, cb_i, cb_n, t_pc, t_msg,
              t_count, h_sent, h_txdone, h_txcur, t_limit, t_blocked, h_runs,
              h_zero, h_gaps, s_phase, cb_busy, cb_first, h_out>>

\* what sofi_destroy leaves alone until its last step
resVars == <<sender_buffer_ptr, receiver_buffer_ptr, window_buffer,
             pa_initialized, debug_level, l_calls, l_limit>>

lifeVars == <<params, recv_window_factor, l_pc, init_ret, stream,
              receiver_thread, h_life, resVars>>

queueVars == <<recv_queue, recv_queue_start, recv_queue_size, recv_queue_lock,
               d_pc, d_msg, d_count, d_limit, d_script, r_pc, r_msg,
               r_packet, h_accepted, h_dropped, h_dequeued, h_delivered>>

rxVars == <<rx_packet, rx_frame, rx_hold, rx_lead, rx_tail, rx_pos, rx_state,
            rx_msg, rx_gap, rx_packet2, rx_frame2, rb_written, h_heard, h_rx>>

selVars == <<sel_in, sel_out>>

frontVars == <<f_pc, f_status, keep_open, max_message_length, nc_sender,
               nc_receiver, sender_thread, nc_receiver_thread, fs_pc, fs_cancel,
               fs_packet, fs_error, fs_status, f_stdin, h_read, f_sent, fr_pc,
               fr_cancel, fr_packet, fr_status, f_incoming, h_recvd, f_stdout,
               f_stdout_open, h_front>>

\* the variables each machine leaves alone
codecOthers == <<queueVars, sendVars, lifeVars, rxVars, selVars, frontVars>>

queueOthers == <<codecVars, sendVars, lifeVars, rxVars, selVars, frontVars>>

sendOthers == <<codecVars, queueVars, lifeVars, selVars, frontVars>>

-----------------------------------------------------------------------------
(* Bounds of the model. *)

\* longest payload of the enumerated packets
MaxLen == 3

\* payload bytes of the enumerated packets
ByteSet == {0, 65}

\* longest frame, in bytes, that the channel of the codec machine alters
\* (longer frames go through unaltered)
MaxAlterBytes == 10

\* frames the demodulator closes in one run of the queue machine (more than
\* RECV_QUEUE_CAP, so that the queue fills, overflows and wraps)
MaxEnq == 34

\* frames the demodulator closes in a run checked for liveness
MaxEnqFair == 4

\* sofi_send calls in one run of the sender machine (more than
\* SENDER_BUFFER_SIZE, so that the ring fills and sofi_send has to wait)
MaxSends == 3

\* largest frames_per_buffer the audio host passes to the callback
MaxFramesPerBuffer == 2

\* sofi_send calls in a run that follows single messages through the modulator
MaxSendsOne == 1

\* frames the demodulator closes in a run from sofi_init to sofi_destroy
MaxEnqLife == 2

\* the frame starts 0..MaxAlign samples after the silence that precedes it
\* (at least the longest LISTEN window less one, for every alignment)
MaxAlign == 8

\* symbols by which the long tone outlasts the symbols array
MaxOver == 2

\* samples the receive ring holds in the runs with the audio callback
\* (RECEIVER_BUFFER_SIZE is 1 << 20 samples in the code)
RecvRingSamples == 8

\* input samples the audio host captures in a run
MaxCaptured == 12

\* largest frames_per_buffer in the runs that compare splits of the output
MaxSplitFrames == 3

\* sofi_init calls in one run of the life cycle with repeated set-up
MaxInits == 2

\* frames the demodulator closes in such a run
MaxEnqRelife == 2

\* frames the demodulator closes in a run where sofi_destroy meets a full
\* receive queue (one more than RECV_QUEUE_CAP, so that the queue overflows)
MaxEnqCancel == 33

\* bytes on the front end's standard input
MaxStdin == 3

\* packets sofi_recv returns to the front end in a run
MaxIncoming == 2

\* sofi_send calls in a run from sofi_init to sofi_destroy (as many as the
\* ring holds, so that sofi_destroy finds it full)
MaxSendsLife == 2

-----------------------------------------------------------------------------
(* 32-bit words are kept as their four bytes, least significant first (the *)
(* layout memcpy gives crc on the little-endian hosts the library runs on),*)
(* so that no value leaves the range of TLC's integers.                    *)

Pow2(n) == 2 ^ n

Xor4 ==
    [a \in 0..15, b \in 0..15 |->
        ((a + b) % 2)
        + 2 * (((a \div 2) + (b \div 2)) % 2)
        + 4 * (((a \div 4) + (b \div 4)) % 2)
        + 8 * (((a \div 8) + (b \div 8)) % 2)]

XorByte(a, b) == 16 * Xor4[a \div 16, b \div 16] + Xor4[a % 16, b % 16]

Xor32(x, y) == <<XorByte(x[1], y[1]), XorByte(x[2], y[2]),
                 XorByte(x[3], y[3]), XorByte(x[4], y[4])>>

Shr1(x) == <<(x[1] \div 2) + 128 * (x[2] % 2), (x[2] \div 2) + 128 * (x[3] % 2),
             (x[3] \div 2) + 128 * (x[4] % 2), x[4] \div 2>>

Shr8(x) == <<x[2], x[3], x[4], 0>>

Not32(x) == <<255 - x[1], 255 - x[2], 255 - x[3], 255 - x[4]>>

\* UINT32_C(0xedb88320)
CrcPoly == <<32, 131, 184, 237>>

RECURSIVE CrcTabEntry(_, _)
CrcTabEntry(crc, j) ==
    IF j = 0 THEN crc
    ELSE CrcTabEntry(IF crc[1] % 2 = 1 THEN Xor32(Shr1(crc), CrcPoly)
                     ELSE Shr1(crc), j - 1)

tab == [i \in 0..255 |-> CrcTabEntry(<<i, 0, 0, 0>>, 8)]

\* one round of the byte loop: val = tab[(uint8_t)val ^ buf[i]] ^ (val >> 8)
CrcStep(val, b) == Xor32(tab[XorByte(val[1], b)], Shr8(val))

\* crc32(buf, len): buf is a sequence holding at least len bytes.  The loop
\* over i = 0 .. len-1 is unfolded by halving the index range, left half
\* first, which keeps the evaluation shallow; the bytes are still taken in
\* order.
crc32(buf, len) ==
    LET Loop[val \in Seq(Nat), lo \in Nat, hi \in Nat] ==
            IF lo > hi THEN val
            ELSE IF lo = hi THEN CrcStep(val, buf[lo])
            ELSE Loop[Loop[val, lo, (lo + hi) \div 2], ((lo + hi) \div 2) + 1, hi]
    IN  Not32(Loop[<<255, 255, 255, 255>>, 1, len])

-----------------------------------------------------------------------------
(* Symbols. *)

SymbolWidths == {1, 2, 4, 8}

num_symbols(w) == Pow2(w)

symbols_per_byte(w) == 8 \div w

\* sizeof(struct sofi_packet) + sizeof(uint32_t): the byte buffers of
\* sofi_send and sofi_recv
BufSize == 260

\* the mutant of RawCap: the array holds the symbols of the largest frame
\* at the symbol width in use
RawCap_PerWidth == BufSize * symbols_per_byte(symbol_width)

\* the symbols array of struct raw_message
RawCap == BufSize * 8

RECV_QUEUE_CAP == 32

SENDER_BUFFER_SIZE == 2

-----------------------------------------------------------------------------
(* sofi_send: frame the packet and split it into symbols. *)

\* buf after the two memcpy: len, the first len payload bytes, crc
SendBuf(packet) ==
    LET head == <<packet.len>> \o SubSeq(packet.payload, 1, packet.len)
    IN  head \o crc32(head, 1 + packet.len)

\* the inner loop: j symbols of c, each c & ((1 << w) - 1), then c >>= w
RECURSIVE SendByteSymbols_MsbFirst(_, _, _)
SendByteSymbols_MsbFirst(c, w, j) ==
    IF j = 0 THEN <<>>
    ELSE <<(c \div Pow2(w * (j - 1))) % Pow2(w)>>
         \o SendByteSymbols_MsbFirst(c, w, j - 1)

RECURSIVE SendByteSymbols(_, _, _)
SendByteSymbols(c, w, j) ==
    IF j = 0 THEN <<>>
    ELSE <<c % Pow2(w)>> \o SendByteSymbols(c \div Pow2(w), w, j - 1)

\* the outer loop: the symbols of buf[0], then those of buf[1], ...
SendSymbols(buf, w) ==
    LET n == symbols_per_byte(w)
    IN  [x \in 1..(Len(buf) * n) |->
            SendByteSymbols(buf[((x - 1) \div n) + 1], w, n)[((x - 1) % n) + 1]]

\* the raw message sofi_send writes to the send ring
SendEncode(packet, w) == SendSymbols(SendBuf(packet), w)

-----------------------------------------------------------------------------
(* sofi_recv: the body of its loop after the dequeue. *)

\* buf[k] after the reassembly loop: the symbols i with i / spb = k, each
\* shifted by (i % spb) * w and or-ed in (the fields are disjoint, so the
\* or is a sum); bytes no symbol reaches keep the memset's 0
RECURSIVE RecvBufByteFrom_MsbFirst(_, _, _, _)
RecvBufByteFrom_MsbFirst(msg, w, k, j) ==
    LET i == k * symbols_per_byte(w) + j
    IN  IF j >= symbols_per_byte(w) \/ i >= Len(msg) THEN 0
        ELSE ((msg[i + 1] * Pow2((symbols_per_byte(w) - 1 - j) * w)) % 256)
             + RecvBufByteFrom_MsbFirst(msg, w, k, j + 1)

RECURSIVE RecvBufByteFrom(_, _, _, _)
RecvBufByteFrom(msg, w, k, j) ==
    LET i == k * symbols_per_byte(w) + j
    IN  IF j >= symbols_per_byte(w) \/ i >= Len(msg) THEN 0
        ELSE ((msg[i + 1] * Pow2(j * w)) % 256)
             + RecvBufByteFrom(msg, w, k, j + 1)

RecvBufByte(msg, w, k) ==
    IF k < BufSize THEN RecvBufByteFrom(msg, w, k, 0) ELSE 0

RecvLen(msg, w) == RecvBufByte(msg, w, 0)

\* buf[0 .. n-1]
RecvBuf(msg, w, n) == [k \in 1..n |-> RecvBufByte(msg, w, k - 1)]

\* crc1: memcpy(&crc1, buf + sizeof(len) + len, sizeof(crc1))
RecvCrc1(msg, w) ==
    LET len == RecvLen(msg, w)
    IN  [k \in 1..4 |-> RecvBufByte(msg, w, len + k)]

\* crc2 = crc32(buf, sizeof(len) + len)
RecvCrc2(msg, w) ==
    LET len == RecvLen(msg, w)
    IN  crc32(RecvBuf(msg, w, 1 + len), 1 + len)

RecvCrcOk_NoCheck(msg, w) == TRUE

RecvCrcOk(msg, w) == RecvCrc1(msg, w) = RecvCrc2(msg, w)

\* memcpy(packet, buf, sizeof(len) + len): the bytes written to *packet
RecvPacket(msg, w) ==
    LET len == RecvLen(msg, w)
    IN  [len |-> len, payload |-> [k \in 1..len |-> RecvBufByte(msg, w, k)]]

-----------------------------------------------------------------------------
(* The codec machine: one packet, encoded, altered on the air, decoded. *)

RECURSIVE SeqsOf(_, _)
SeqsOf(S, n) ==
    IF n = 0 THEN {<<>>}
    ELSE {Append(s, x) : s \in SeqsOf(S, n - 1), x \in S}

\* the packets a caller may pass: payload[] longer than len is allowed, the
\* bytes after len are the caller's and are not sent
EnumPackets ==
    UNION {{[len |-> n, payload |-> p] : p \in SeqsOf(ByteSet, n)} : n \in 0..MaxLen}

\* packets of the end-to-end scenarios and of particular CRC values:
\* "hello"; the longest packet, with payload 0x00 .. 0xFE; a payload that is
\* the CRC of the empty frame; a frame whose CRC has a zero top byte; a
\* packet with bytes after len
NamedPackets ==
    { [len |-> 5, payload |-> <<104, 101, 108, 108, 111>>],
      [len |-> 255, payload |-> [i \in 1..255 |-> i - 1]],
      [len |-> 4, payload |-> <<141, 239, 2, 210>>],
      [len |-> 1, payload |-> <<61>>],
      [len |-> 1, payload |-> <<65, 66, 67>>] }

Packets == EnumPackets \cup NamedPackets

\* a struct sofi_init_parameters (symbol_freqs left out) with debug_level 0;
\* recv_window_factor is the fraction f[1] / f[2]; interpacket_gap_factor is
\* the member the front end's --gap option stores
Params(sr, bd, f, w, s, r, g) ==
    [sample_rate |-> sr, baud |-> bd, recv_window_factor |-> f,
     symbol_width |-> w, sender |-> s, receiver |-> r,
     interpacket_gap_factor |-> g, debug_level |-> 0]

\* DEFAULT_SOFI_INIT_PARAMS
DefaultParams == Params(192000, 1200, <<1, 5>>, 2, TRUE, TRUE, 2)

\* the state sofi_init(p) leaves when it returns 0
LifeUp(p) ==
    /\ params = p
    /\ sample_rate = p.sample_rate
    /\ baud = p.baud
    /\ recv_window_factor = p.recv_window_factor
    /\ symbol_width = p.symbol_width
    /\ l_pc = "up"
    /\ init_ret = 0
    /\ stream = "running"
    /\ receiver_thread = IF p.receiver THEN "running" ELSE "none"
    /\ h_life = {}
    /\ sender_buffer_ptr = IF p.sender THEN "allocated" ELSE "null"
    /\ receiver_buffer_ptr = IF p.receiver THEN "allocated" ELSE "null"
    /\ window_buffer = IF p.receiver THEN "allocated" ELSE "null"
    /\ pa_initialized = TRUE
    /\ debug_level = p.debug_level
    /\ l_calls = 1
    /\ l_limit = 1

\* the demodulator at rest: listening, nothing in the input
RxIdle ==
    /\ rx_packet = [len |-> 0, payload |-> <<>>]
    /\ rx_frame = <<>>
    /\ rx_hold = 0
    /\ rx_lead = 0
    /\ rx_tail = 0
    /\ rx_pos = 0
    /\ rx_state = "LISTEN"
    /\ rx_msg = <<>>
    /\ rx_gap = 0
    /\ rx_packet2 = [len |-> 0, payload |-> <<>>]
    /\ rx_frame2 = <<>>
    /\ rb_written = 0
    /\ h_heard = FALSE
    /\ h_rx = {}

\* sel_out before the loop over the symbols has run
NotClassified == -2

\* no window has been classified
SelIdle ==
    /\ sel_in = <<>>
    /\ sel_out = NotClassified

\* the front end not started
FrontIdle ==
    /\ f_pc = "init"
    /\ f_status = 0
    /\ keep_open = FALSE
    /\ max_message_length = 1
    /\ nc_sender = FALSE
    /\ nc_receiver = FALSE
    /\ sender_thread = "unset"
    /\ nc_receiver_thread = "unset"
    /\ fs_pc = "none"
    /\ fs_cancel = FALSE
    /\ fs_packet = <<>>
    /\ fs_error = FALSE
    /\ fs_status = 0
    /\ f_stdin = <<>>
    /\ h_read = <<>>
    /\ f_sent = <<>>
    /\ fr_pc = "none"
    /\ fr_cancel = FALSE
    /\ fr_packet = <<>>
    /\ fr_status = 0
    /\ f_incoming = <<>>
    /\ h_recvd = <<>>
    /\ f_stdout = <<>>
    /\ f_stdout_open = TRUE
    /\ h_front = {}

\* the sender machine at rest: the ring empty, the modulator idle
SendIdle ==
    /\ s_ring = [i \in 0..(SENDER_BUFFER_SIZE - 1) |-> <<>>]
    /\ s_widx = 0
    /\ s_ridx = 0
    /\ s_state = "IDLE"
    /\ s_msg = 0
    /\ s_index = 0
    /\ s_symbol = 0
    /\ s_frame = 0
    /\ cb_pc = "out"
    /\ cb_i = 0
    /\ cb_n = 0
    /\ t_pc = "idle"
    /\ t_msg = <<>>
    /\ t_count = 0
    /\ h_sent = <<>>
    /\ h_txdone = <<>>
    /\ h_txcur = <<>>
    /\ t_limit = 0
    /\ t_blocked = FALSE
    /\ h_runs = <<>>
    /\ h_zero = 0
    /\ h_gaps = <<>>
    /\ s_phase = 0
    /\ cb_busy = FALSE
    /\ cb_first = FALSE
    /\ h_out = <<>>

NoAlter == [kind |-> "none", at |-> 0, bit |-> 0]

NoOut == [ok |-> FALSE, packet |-> [len |-> 0, payload |-> <<>>]]

\* the codec machine at rest
CodecIdle ==
    /\ c_stage = "packet"
    /\ c_packet = [len |-> 0, payload |-> <<>>]
    /\ c_msg = <<>>
    /\ c_alter = NoAlter
    /\ c_out = NoOut

\* the queue machine at rest: the statics of libsofi.c:48-51, no thread running
QueueIdle ==
    /\ recv_queue = [i \in 0..(RECV_QUEUE_CAP - 1) |-> <<>>]
    /\ recv_queue_start = 0
    /\ recv_queue_size = 0
    /\ recv_queue_lock = "free"
    /\ d_pc = "loop"
    /\ d_msg = <<>>
    /\ d_count = 0
    /\ d_limit = 0
    /\ d_script = <<>>
    /\ r_pc = "idle"
    /\ r_msg = <<>>
    /\ r_packet = [len |-> 0, payload |-> <<>>]
    /\ h_accepted = <<>>
    /\ h_dropped = <<>>
    /\ h_dequeued = <<>>
    /\ h_delivered = <<>>

CodecInit ==
    /\ \E w \in SymbolWidths : LifeUp([DefaultParams EXCEPT !.symbol_width = w])
    /\ QueueIdle
    /\ SendIdle
    /\ RxIdle
    /\ SelIdle
    /\ FrontIdle
    /\ c_stage = "packet"
    /\ c_packet \in Packets
    /\ c_msg = <<>>
    /\ c_alter = NoAlter
    /\ c_out = NoOut

\* sofi_send up to the ring write
CodecSend ==
    /\ c_stage = "packet"
    /\ c_msg' = SendEncode(c_packet, symbol_width)
    /\ c_stage' = "sent"
    /\ UNCHANGED <<symbol_width, c_packet, c_alter, c_out>>
    /\ UNCHANGED codecOthers

\* symbol s with bit p inverted
FlipSymbolBit(s, p) ==
    IF (s \div Pow2(p)) % 2 = 1 THEN s - Pow2(p) ELSE s + Pow2(p)

\* the channel inverts bit b of frame byte k (0-based): one bit of one symbol
ChannelFlip(k, b) ==
    /\ c_stage = "sent"
    /\ Len(c_msg) <= MaxAlterBytes * symbols_per_byte(symbol_width)
    /\ k < Len(c_msg) \div symbols_per_byte(symbol_width)
    /\ LET i == k * symbols_per_byte(symbol_width) + (b \div symbol_width) + 1
       IN  c_msg' = [c_msg EXCEPT ![i] = FlipSymbolBit(@, b % symbol_width)]
    /\ c_alter' = [kind |-> "flip", at |-> k, bit |-> b]
    /\ c_stage' = "air"
    /\ UNCHANGED <<symbol_width, c_packet, c_out>>
    /\ UNCHANGED codecOthers

\* the carrier is lost early: only the first n symbols are demodulated
ChannelTruncate(n) ==
    /\ c_stage = "sent"
    /\ Len(c_msg) <= MaxAlterBytes * symbols_per_byte(symbol_width)
    /\ c_msg' = SubSeq(c_msg, 1, n)
    /\ c_alter' = [kind |-> "trunc", at |-> n, bit |-> 0]
    /\ c_stage' = "air"
    /\ UNCHANGED <<symbol_width, c_packet, c_out>>
    /\ UNCHANGED codecOthers

ChannelClean ==
    /\ c_stage = "sent"
    /\ c_stage' = "air"
    /\ UNCHANGED <<symbol_width, c_packet, c_msg, c_alter, c_out>>
    /\ UNCHANGED codecOthers

\* sofi_recv's loop body on c_msg: the packet is written only when the CRCs
\* agree
CodecRecv ==
    /\ c_stage = "air"
    /\ c_out' = IF RecvCrcOk(c_msg, symbol_width)
                THEN [ok |-> TRUE, packet |-> RecvPacket(c_msg, symbol_width)]
                ELSE NoOut
    /\ c_stage' = "done"
    /\ UNCHANGED <<symbol_width, c_packet, c_msg, c_alter>>
    /\ UNCHANGED codecOthers

CodecNext ==
    \/ CodecSend
    \/ \E k \in 0..(MaxAlterBytes - 1), b \in 0..7 : ChannelFlip(k, b)
    \/ \E n \in 0..(Len(c_msg) - 1) : ChannelTruncate(n)
    \/ ChannelClean
    \/ CodecRecv

-----------------------------------------------------------------------------
(* The receive queue machine: the demodulator thread closes frames and     *)
(* enqueues them; one client thread calls sofi_recv again and again.       *)

\* the frame the demodulator closes as its n-th (n = 1, 2, ...), by kind:
\* the message of a one-byte packet carrying n, intact; the same with one
\* payload bit inverted; the same cut short by one byte; no symbol at all
HeardMsg(kind, n, w) ==
    LET good == SendEncode([len |-> 1, payload |-> <<n % 256>>], w)
    IN  CASE kind = "good"  -> good
          [] kind = "flip"  -> [good EXCEPT ![symbols_per_byte(w) + 1] =
                                    FlipSymbolBit(@, 0)]
          [] kind = "short" -> SubSeq(good, 1, Len(good) - symbols_per_byte(w))
          [] OTHER          -> <<>>

\* what the demodulator hears: the kinds of the frames, repeated in a cycle
Scripts ==
    { <<"good">>,
      <<"flip", "good">>,
      <<"good", "short", "empty", "good">>,
      <<"flip">> }

QueueWidths == {2, 8}

QueueStart(limit) ==
    /\ \E w \in QueueWidths : LifeUp([DefaultParams EXCEPT !.symbol_width = w])
    /\ CodecIdle
    /\ SendIdle
    /\ RxIdle
    /\ SelIdle
    /\ FrontIdle
    /\ recv_queue = [i \in 0..(RECV_QUEUE_CAP - 1) |-> <<>>]
    /\ recv_queue_start = 0
    /\ recv_queue_size = 0
    /\ recv_queue_lock = "free"
    /\ d_pc = "loop"
    /\ d_msg = <<>>
    /\ d_count = 0
    /\ d_limit = limit
    /\ d_script \in Scripts
    /\ r_pc = "idle"
    /\ r_msg = <<>>
    /\ r_packet = [len |-> 0, payload |-> <<>>]
    /\ h_accepted = <<>>
    /\ h_dropped = <<>>
    /\ h_dequeued = <<>>
    /\ h_delivered = <<>>

QueueInit == QueueStart(MaxEnq)

\* the start of the runs checked for liveness
QueueInitFair == QueueStart(MaxEnqFair)

\* receiver_loop in DEMODULATE reads a silent window: the frame is closed
\* and recv_queue_enqueue(&msg) is called
DemodCloseFrame ==
    /\ receiver_thread = "running"
    /\ d_pc = "loop"
    /\ d_count < d_limit
    /\ d_count' = d_count + 1
    /\ d_msg' = HeardMsg(d_script[(d_count % Len(d_script)) + 1],
                         d_count + 1, symbol_width)
    /\ d_pc' = "lock"
    /\ UNCHANGED <<symbol_width, recv_queue, recv_queue_start, recv_queue_size,
                   recv_queue_lock, d_limit, d_script, r_pc, r_msg, r_packet,
                   h_accepted, h_dropped, h_dequeued, h_delivered>>
    /\ UNCHANGED queueOthers

\* recv_queue_enqueue: pthread_mutex_lock
EnqLock ==
    /\ d_pc = "lock"
    /\ recv_queue_lock = "free"
    /\ recv_queue_lock' = "demod"
    /\ d_pc' = "body"
    /\ UNCHANGED <<symbol_width, recv_queue, recv_queue_start, recv_queue_size,
                   d_msg, d_count, d_limit, d_script, r_pc, r_msg, r_packet,
                   h_accepted, h_dropped, h_dequeued, h_delivered>>
    /\ UNCHANGED queueOthers

\* pthread_cond_signal: wakes the thread blocked in pthread_cond_wait, if any
CondSignal == r_pc' = IF r_pc = "waiting" THEN "woken" ELSE r_pc

\* the mutants of EnqBody
EnqBody_NoCapCheck ==
    /\ d_pc = "body"
    /\ recv_queue' = [recv_queue EXCEPT
            ![(recv_queue_start + recv_queue_size) % RECV_QUEUE_CAP] = d_msg]
    /\ recv_queue_size' = recv_queue_size + 1
    /\ CondSignal
    /\ h_accepted' = Append(h_accepted,
            [msg |-> d_msg, valid |-> RecvCrcOk(d_msg, symbol_width)])
    /\ d_pc' = "unlock"
    /\ UNCHANGED <<symbol_width, recv_queue_start, recv_queue_lock, d_msg,
                   d_count, d_limit, d_script, r_msg, r_packet, h_dropped, h_dequeued,
                   h_delivered>>
    /\ UNCHANGED queueOthers

EnqBody_NoStart ==
    /\ d_pc = "body"
    /\ IF recv_queue_size < RECV_QUEUE_CAP
       THEN /\ recv_queue' = [recv_queue EXCEPT
                    ![recv_queue_size % RECV_QUEUE_CAP] = d_msg]
            /\ recv_queue_size' = recv_queue_size + 1
            /\ CondSignal
            /\ h_accepted' = Append(h_accepted,
                    [msg |-> d_msg, valid |-> RecvCrcOk(d_msg, symbol_width)])
            /\ UNCHANGED h_dropped
       ELSE /\ h_dropped' = Append(h_dropped, d_msg)
            /\ UNCHANGED <<recv_queue, recv_queue_size, r_pc, h_accepted>>
    /\ d_pc' = "unlock"
    /\ UNCHANGED <<symbol_width, recv_queue_start, recv_queue_lock, d_msg,
                   d_count, d_limit, d_script, r_msg, r_packet, h_dequeued, h_delivered>>
    /\ UNCHANGED queueOthers

EnqBody_DropOldest ==
    /\ d_pc = "body"
    /\ IF recv_queue_size < RECV_QUEUE_CAP
       THEN /\ recv_queue' = [recv_queue EXCEPT
                    ![(recv_queue_start + recv_queue_size) % RECV_QUEUE_CAP] = d_msg]
            /\ recv_queue_size' = recv_queue_size + 1
            /\ UNCHANGED <<recv_queue_start, h_dropped>>
       ELSE /\ recv_queue' = [recv_queue EXCEPT ![recv_queue_start] = d_msg]
            /\ recv_queue_start' = (recv_queue_start + 1) % RECV_QUEUE_CAP
            /\ h_dropped' = Append(h_dropped, recv_queue[recv_queue_start])
            /\ UNCHANGED recv_queue_size
    /\ CondSignal
    /\ h_accepted' = Append(h_accepted,
            [msg |-> d_msg, valid |-> RecvCrcOk(d_msg, symbol_width)])
    /\ d_pc' = "unlock"
    /\ UNCHANGED <<symbol_width, recv_queue_lock, d_msg, d_count, d_limit, d_script,
                   r_msg, r_packet, h_dequeued, h_delivered>>
    /\ UNCHANGED queueOthers

EnqBody_NoSignal ==
    /\ d_pc = "body"
    /\ IF recv_queue_size < RECV_QUEUE_CAP
       THEN /\ recv_queue' = [recv_queue EXCEPT
                    ![(recv_queue_start + recv_queue_size) % RECV_QUEUE_CAP] = d_msg]
            /\ recv_queue_size' = recv_queue_size + 1
            /\ h_accepted' = Append(h_accepted,
                    [msg |-> d_msg, valid |-> RecvCrcOk(d_msg, symbol_width)])
            /\ UNCHANGED h_dropped
       ELSE /\ h_dropped' = Append(h_dropped, d_msg)
            /\ UNCHANGED <<recv_queue, recv_queue_size, h_accepted>>
    /\ d_pc' = "unlock"
    /\ UNCHANGED <<symbol_width, recv_queue_start, recv_queue_lock, d_msg,
                   d_count, d_limit, d_script, r_pc, r_msg, r_packet, h_dequeued,
                   h_delivered>>
    /\ UNCHANGED queueOthers

\* recv_queue_enqueue with the mutex held: store and signal, or drop
EnqBody ==
    /\ d_pc = "body"
    /\ IF recv_queue_size < RECV_QUEUE_CAP
       THEN /\ recv_queue' = [recv_queue EXCEPT
                    ![(recv_queue_start + recv_queue_size) % RECV_QUEUE_CAP] = d_msg]
            /\ recv_queue_size' = recv_queue_size + 1
            /\ CondSignal
            /\ h_accepted' = Append(h_accepted,
                    [msg |-> d_msg, valid |-> RecvCrcOk(d_msg, symbol_width)])
            /\ UNCHANGED h_dropped
       ELSE /\ h_dropped' = Append(h_dropped, d_msg)
            /\ UNCHANGED <<recv_queue, recv_queue_size, r_pc, h_accepted>>
    /\ d_pc' = "unlock"
    /\ UNCHANGED <<symbol_width, recv_queue_start, recv_queue_lock, d_msg,
                   d_count, d_limit, d_script, r_msg, r_packet, h_dequeued, h_delivered>>
    /\ UNCHANGED queueOthers

\* recv_queue_enqueue: pthread_mutex_unlock, and back to receiver_loop
EnqUnlock ==
    /\ d_pc = "unlock"
    /\ recv_queue_lock' = "free"
    /\ d_pc' = "loop"
    /\ UNCHANGED <<symbol_width, recv_queue, recv_queue_start, recv_queue_size,
                   d_msg, d_count, d_limit, d_script, r_pc, r_msg, r_packet,
                   h_accepted, h_dropped, h_dequeued, h_delivered>>
    /\ UNCHANGED queueOthers

\* the client calls sofi_recv(&packet), between a sofi_init that started the
\* receiver and the call of sofi_destroy
RecvCall ==
    /\ l_pc = "up"
    /\ params.receiver
    /\ r_pc = "idle"
    /\ r_pc' = "lock"
    /\ UNCHANGED <<symbol_width, recv_queue, recv_queue_start, recv_queue_size,
                   recv_queue_lock, d_pc, d_msg, d_count, d_limit, d_script, r_msg,
                   r_packet, h_accepted, h_dropped, h_dequeued, h_delivered>>
    /\ UNCHANGED queueOthers

\* recv_queue_dequeue: pthread_mutex_lock; also pthread_cond_wait taking the
\* mutex again once woken
DeqLock ==
    /\ r_pc \in {"lock", "woken"}
    /\ recv_queue_lock = "free"
    /\ recv_queue_lock' = "client"
    /\ r_pc' = "check"
    /\ UNCHANGED <<symbol_width, recv_queue, recv_queue_start, recv_queue_size,
                   d_pc, d_msg, d_count, d_limit, d_script, r_msg, r_packet,
                   h_accepted, h_dropped, h_dequeued, h_delivered>>
    /\ UNCHANGED queueOthers

\* recv_queue_dequeue with the mutex held: the test of the while loop, then
\* pthread_cond_wait (which gives the mutex up and blocks) or the copy
DeqCheck ==
    /\ r_pc = "check"
    /\ IF recv_queue_size = 0
       THEN /\ recv_queue_lock' = "free"
            /\ r_pc' = "waiting"
            /\ UNCHANGED <<recv_queue_start, recv_queue_size, r_msg, h_dequeued>>
       ELSE /\ r_msg' = recv_queue[recv_queue_start]
            /\ recv_queue_start' = (recv_queue_start + 1) % RECV_QUEUE_CAP
            /\ recv_queue_size' = recv_queue_size - 1
            /\ h_dequeued' = Append(h_dequeued, recv_queue[recv_queue_start])
            /\ r_pc' = "unlock"
            /\ UNCHANGED recv_queue_lock
    /\ UNCHANGED <<symbol_width, recv_queue, d_pc, d_msg, d_count, d_limit, d_script,
                   r_packet, h_accepted, h_dropped, h_delivered>>
    /\ UNCHANGED queueOthers

\* pthread_cond_wait may return without a signal
DeqSpuriousWake ==
    /\ r_pc = "waiting"
    /\ r_pc' = "woken"
    /\ UNCHANGED <<symbol_width, recv_queue, recv_queue_start, recv_queue_size,
                   recv_queue_lock, d_pc, d_msg, d_count, d_limit, d_script, r_msg,
                   r_packet, h_accepted, h_dropped, h_dequeued, h_delivered>>
    /\ UNCHANGED queueOthers

\* recv_queue_dequeue: pthread_mutex_unlock
DeqUnlock ==
    /\ r_pc = "unlock"
    /\ recv_queue_lock' = "free"
    /\ r_pc' = "decode"
    /\ UNCHANGED <<symbol_width, recv_queue, recv_queue_start, recv_queue_size,
                   d_pc, d_msg, d_count, d_limit, d_script, r_msg, r_packet,
                   h_accepted, h_dropped, h_dequeued, h_delivered>>
    /\ UNCHANGED queueOthers

RecvDecode_DeliverAll ==
    /\ r_pc = "decode"
    /\ r_packet' = RecvPacket(r_msg, symbol_width)
    /\ h_delivered' = Append(h_delivered,
                    [packet |-> RecvPacket(r_msg, symbol_width), msg |-> r_msg])
    /\ r_pc' = "idle"
    /\ UNCHANGED <<symbol_width, recv_queue, recv_queue_start, recv_queue_size,
                   recv_queue_lock, d_pc, d_msg, d_count, d_limit, d_script, r_msg,
                   h_accepted, h_dropped, h_dequeued>>
    /\ UNCHANGED queueOthers

\* sofi_recv after the dequeue: reassemble, compare the CRCs, and either
\* copy the packet out and return or go round the loop
RecvDecode ==
    /\ r_pc = "decode"
    /\ IF RecvCrcOk(r_msg, symbol_width)
       THEN /\ r_packet' = RecvPacket(r_msg, symbol_width)
            /\ h_delivered' = Append(h_delivered,
                    [packet |-> RecvPacket(r_msg, symbol_width), msg |-> r_msg])
            /\ r_pc' = "idle"
       ELSE /\ r_pc' = "lock"
            /\ UNCHANGED <<r_packet, h_delivered>>
    /\ UNCHANGED <<symbol_width, recv_queue, recv_queue_start, recv_queue_size,
                   recv_queue_lock, d_pc, d_msg, d_count, d_limit, d_script, r_msg,
                   h_accepted, h_dropped, h_dequeued>>
    /\ UNCHANGED queueOthers

recv_queue_enqueue == EnqLock \/ EnqBody \/ EnqUnlock

recv_queue_dequeue == DeqLock \/ DeqCheck \/ DeqSpuriousWake \/ DeqUnlock

QueueNext ==
    \/ DemodCloseFrame
    \/ EnqLock
    \/ EnqBody
    \/ EnqUnlock
    \/ RecvCall
    \/ DeqLock
    \/ DeqCheck
    \/ DeqSpuriousWake
    \/ DeqUnlock
    \/ RecvDecode

-----------------------------------------------------------------------------
(* The send ring (PaUtilRingBuffer, element = one raw message) as the      *)
(* ring buffer contract describes it: one writer, one reader, indices that *)
(* count modulo twice the capacity.                                        *)

RingReadAvailable(widx, ridx) == (widx - ridx) % (2 * SENDER_BUFFER_SIZE)

RingWriteAvailable(widx, ridx) == SENDER_BUFFER_SIZE - RingReadAvailable(widx, ridx)

RingSlot(idx) == idx % SENDER_BUFFER_SIZE

RingAdvance(idx, n) == (idx + n) % (2 * SENDER_BUFFER_SIZE)

-----------------------------------------------------------------------------
(* The sender machine: one client thread calls sofi_send again and again;  *)
(* the audio thread runs sofi_callback with an output buffer only          *)
(* (params->sender, no receiver), frame by frame.                          *)

\* the packets the client sends
SendPackets ==
    { [len |-> 0, payload |-> <<>>],
      [len |-> 1, payload |-> <<65>>] }

SendWidths == {4, 8}

\* sample_rate, baud and the front end's gap factor; the symbol time
\* sample_rate / baud is 2 and 3 frames for the first two, 2.5 frames for
\* the third and 1 1/3 frames for the last
RateConfigs == {<<2, 1, 2>>, <<3, 1, 1>>, <<5, 2, 3>>, <<4, 3, 2>>}

SendStart(widths, limit) ==
    /\ \E w \in widths, c \in RateConfigs :
            LifeUp(Params(c[1], c[2], <<1, 5>>, w, TRUE, FALSE, c[3]))
    /\ CodecIdle
    /\ QueueIdle
    /\ RxIdle
    /\ SelIdle
    /\ FrontIdle
    /\ s_ring = [i \in 0..(SENDER_BUFFER_SIZE - 1) |-> <<>>]
    /\ s_widx = 0
    /\ s_ridx = 0
    /\ s_state = "IDLE"
    /\ s_msg = 0
    /\ s_index = 0
    /\ s_symbol = 0
    /\ s_frame = 0
    /\ cb_pc = "out"
    /\ cb_i = 0
    /\ cb_n = 0
    /\ t_pc = "idle"
    /\ t_msg = <<>>
    /\ t_count = 0
    /\ h_sent = <<>>
    /\ h_txdone = <<>>
    /\ h_txcur = <<>>
    /\ t_limit = limit
    /\ t_blocked = FALSE
    /\ h_runs = <<>>
    /\ h_zero = 0
    /\ h_gaps = <<>>
    /\ s_phase = 0
    /\ cb_busy = FALSE
    /\ cb_first = FALSE
    /\ h_out = <<>>

SendInit == SendStart(SendWidths, MaxSends)

\* the start of the runs that follow single messages at every symbol width
SendInitOne == SendStart(SymbolWidths, MaxSendsOne)

\* sofi_send up to the ring write: the message is built
SendCall(packet) ==
    /\ t_pc = "idle"
    /\ l_pc = "up"
    /\ params.sender
    /\ t_count < t_limit
    /\ t_count' = t_count + 1
    /\ t_msg' = SendEncode(packet, symbol_width)
    /\ h_sent' = Append(h_sent, SendEncode(packet, symbol_width))
    /\ t_pc' = "write"
    /\ t_blocked' = FALSE
    /\ UNCHANGED <<symbol_width, sample_rate, baud, s_ring, s_widx, s_ridx,
                   s_state, s_msg, s_index, s_symbol, s_frame, cb_pc, cb_i,
                   cb_n, h_txdone, h_txcur, t_limit, h_runs, h_zero, h_gaps, s_phase,
                   cb_busy, cb_first, h_out>>
    /\ UNCHANGED <<sendOthers, rxVars>>

\* the mutant of SendWriteTry: the write also waits for the modulator to be idle
SendWriteTry_WaitIdle ==
    /\ t_pc = "write"
    /\ t_pc' = IF RingWriteAvailable(s_widx, s_ridx) >= 1 /\ s_state = "IDLE"
               THEN "copy" ELSE "write"
    /\ t_blocked' = ~(RingWriteAvailable(s_widx, s_ridx) >= 1 /\ s_state = "IDLE")
    /\ UNCHANGED <<symbol_width, sample_rate, baud, s_ring, s_widx, s_ridx,
                   s_state, s_msg, s_index, s_symbol, s_frame, cb_pc, cb_i,
                   cb_n, t_msg, t_count, h_sent, h_txdone, h_txcur, t_limit,
                   h_runs, h_zero, h_gaps, s_phase,
                   cb_busy, cb_first, h_out>>
    /\ UNCHANGED <<sendOthers, rxVars>>

\* PaUtil_WriteRingBuffer(&data.sender.buffer, &msg, 1): with no room it
\* returns 0 and sofi_send sleeps and tries again; with room it goes on to
\* copy the message
SendWriteTry ==
    /\ t_pc = "write"
    /\ t_pc' = IF RingWriteAvailable(s_widx, s_ridx) >= 1 THEN "copy" ELSE "write"
    /\ t_blocked' = (RingWriteAvailable(s_widx, s_ridx) < 1)
    /\ UNCHANGED <<symbol_width, sample_rate, baud, s_ring, s_widx, s_ridx,
                   s_state, s_msg, s_index, s_symbol, s_frame, cb_pc, cb_i,
                   cb_n, t_msg, t_count, h_sent, h_txdone, h_txcur, t_limit,
                   h_runs, h_zero, h_gaps, s_phase,
                   cb_busy, cb_first, h_out>>
    /\ UNCHANGED <<sendOthers, rxVars>>

\* the memcpy into the slot at the write index
SendCopy ==
    /\ t_pc = "copy"
    /\ s_ring' = [s_ring EXCEPT ![RingSlot(s_widx)] = t_msg]
    /\ t_pc' = "publish"
    /\ UNCHANGED <<symbol_width, sample_rate, baud, s_widx, s_ridx,
                   s_state, s_msg, s_index, s_symbol, s_frame, cb_pc, cb_i,
                   cb_n, t_msg, t_count, h_sent, h_txdone, h_txcur, t_limit,
                   t_blocked, h_runs, h_zero, h_gaps, s_phase,
                   cb_busy, cb_first, h_out>>
    /\ UNCHANGED <<sendOthers, rxVars>>

\* the write index is advanced, the ring write returns 1 and sofi_send returns
SendPublish ==
    /\ t_pc = "publish"
    /\ s_widx' = RingAdvance(s_widx, 1)
    /\ t_pc' = "idle"
    /\ UNCHANGED <<symbol_width, sample_rate, baud, s_ring, s_ridx,
                   s_state, s_msg, s_index, s_symbol, s_frame, cb_pc, cb_i,
                   cb_n, t_msg, t_count, h_sent, h_txdone, h_txcur, t_limit,
                   t_blocked, h_runs, h_zero, h_gaps, s_phase,
                   cb_busy, cb_first, h_out>>
    /\ UNCHANGED <<sendOthers, rxVars>>

\* PaUtil_GetRingBufferReadAvailable and PaUtil_GetRingBufferWriteAvailable
\* of data.receiver.buffer
RecvReadAvailable == rb_written - rx_pos

RecvWriteAvailable == RecvRingSamples - RecvReadAvailable

\* symbol_freqs[sym], in Hz: the caller's table puts symbol i at i + 1 Hz
symbol_freqs(sym) == sym + 1

\* the mutant of PhaseStep: the phase starts again at every sample
PhaseStep_Restart(phase, sym) == symbol_freqs(sym) % sample_rate

\* data->phase += (2.f * M_PI * frequency) / sample_rate, then 2 * pi is
\* taken off while the phase is at least 2 * pi
PhaseStep(phase, sym) == (phase + symbol_freqs(sym)) % sample_rate

\* the audio host calls sofi_callback with buffers of n frames; without an
\* output buffer sender_callback is not called
CallbackBegin(n) ==
    /\ stream = "running"
    /\ cb_pc = "out"
    /\ rb_written < MaxCaptured
    /\ cb_pc' = "in"
    /\ cb_i' = IF params.sender THEN 0 ELSE n
    /\ cb_n' = n
    /\ cb_busy' = FALSE
    /\ cb_first' = FALSE
    /\ UNCHANGED <<symbol_width, sample_rate, baud, s_ring, s_widx, s_ridx,
                   s_state, s_msg, s_index, s_symbol, s_frame, t_pc, t_msg,
                   t_count, h_sent, h_txdone, h_txcur, t_limit, t_blocked,
                   h_runs, h_zero, h_gaps, s_phase, h_out>>
    /\ UNCHANGED <<sendOthers, rxVars>>

\* out[i] = 0.f, as an entry of h_out (a sine sample is entered as the phase
\* it is the sine of, which is never negative)
ZeroSample == -1

\* the mutant of SymbolOver: the frame counter is compared before it is
\* incremented
SymbolOver_PostIncrement(f) == (f - 1) * baud >= sample_rate

\* ++data->frame >= sample_rate / baud, f being the incremented frame
SymbolOver(f) == f * baud >= sample_rate

\* ++data->frame >= interpacket_gap() * sample_rate, interpacket_gap()
\* being 2.f / baud
GapOver(f) == f * baud >= 2 * sample_rate

\* the mutant of Transmitting: first is not cleared after the first sample
\* of a message
Transmitting_FirstKept(first, msg, index, frame) ==
    IF first \/ SymbolOver(frame + 1)
    THEN IF index >= Len(s_ring[msg])
         THEN /\ s_state' = "INTERPACKET_GAP"
              /\ s_frame' = 0
              /\ s_index' = index
              /\ s_msg' = msg
              /\ h_txdone' = Append(h_txdone, h_txcur)
              /\ h_txcur' = <<>>
              /\ h_zero' = IF first THEN h_zero + 1 ELSE 1
              /\ h_out' = Append(h_out, ZeroSample)
              /\ cb_first' = first
              /\ UNCHANGED <<s_symbol, s_ridx, h_runs, h_gaps, s_phase>>
         ELSE /\ s_symbol' = s_ring[msg][index + 1]
              /\ s_index' = index + 1
              /\ s_frame' = 0
              /\ s_state' = "TRANSMITTING"
              /\ s_msg' = msg
              /\ h_txcur' = Append(IF first THEN <<>> ELSE h_txcur,
                                   s_ring[msg][index + 1])
              /\ h_runs' = Append(IF first THEN <<>> ELSE h_runs,
                                  <<s_ring[msg][index + 1], 1>>)
              /\ h_zero' = 0
              /\ h_gaps' = IF first /\ h_txdone # <<>>
                           THEN Append(h_gaps, h_zero) ELSE h_gaps
              /\ s_phase' = PhaseStep(s_phase, s_ring[msg][index + 1])
              /\ h_out' = Append(h_out, s_phase)
              /\ cb_first' = first
              /\ UNCHANGED <<s_ridx, h_txdone>>
    ELSE /\ s_frame' = frame + 1
         /\ s_state' = "TRANSMITTING"
         /\ s_index' = index
         /\ s_msg' = msg
         /\ h_runs' = [h_runs EXCEPT ![Len(h_runs)] = <<@[1], @[2] + 1>>]
         /\ s_phase' = PhaseStep(s_phase, s_symbol)
         /\ h_out' = Append(h_out, s_phase)
         /\ cb_first' = FALSE
         /\ UNCHANGED <<s_symbol, s_ridx, h_txdone, h_txcur, h_zero, h_gaps>>

\* case SEND_STATE_TRANSMITTING, entered with first set (from IDLE in this
\* frame) or clear; msg is the slot data->msg points into, read in place
Transmitting(first, msg, index, frame) ==
    IF first \/ SymbolOver(frame + 1)
    THEN IF index >= Len(s_ring[msg])
         THEN /\ s_state' = "INTERPACKET_GAP"
              /\ s_frame' = 0
              /\ s_index' = index
              /\ s_msg' = msg
              /\ h_txdone' = Append(h_txdone, h_txcur)
              /\ h_txcur' = <<>>
              /\ h_zero' = IF first THEN h_zero + 1 ELSE 1
              /\ h_out' = Append(h_out, ZeroSample)
              /\ cb_first' = first
              /\ UNCHANGED <<s_symbol, s_ridx, h_runs, h_gaps, s_phase>>
         ELSE /\ s_symbol' = s_ring[msg][index + 1]
              /\ s_index' = index + 1
              /\ s_frame' = 0
              /\ s_state' = "TRANSMITTING"
              /\ s_msg' = msg
              /\ h_txcur' = Append(IF first THEN <<>> ELSE h_txcur,
                                   s_ring[msg][index + 1])
              /\ h_runs' = Append(IF first THEN <<>> ELSE h_runs,
                                  <<s_ring[msg][index + 1], 1>>)
              /\ h_zero' = 0
              /\ h_gaps' = IF first /\ h_txdone # <<>>
                           THEN Append(h_gaps, h_zero) ELSE h_gaps
              /\ s_phase' = PhaseStep(s_phase, s_ring[msg][index + 1])
              /\ h_out' = Append(h_out, s_phase)
              /\ cb_first' = FALSE
              /\ UNCHANGED <<s_ridx, h_txdone>>
    ELSE /\ s_frame' = frame + 1
         /\ s_state' = "TRANSMITTING"
         /\ s_index' = index
         /\ s_msg' = msg
         /\ h_runs' = [h_runs EXCEPT ![Len(h_runs)] = <<@[1], @[2] + 1>>]
         /\ s_phase' = PhaseStep(s_phase, s_symbol)
         /\ h_out' = Append(h_out, s_phase)
         /\ cb_first' = FALSE
         /\ UNCHANGED <<s_symbol, s_ridx, h_txdone, h_txcur, h_zero, h_gaps>>

\* the mutant of SenderFrame: the ring slot is released when the message is
\* picked up, not when its gap is over
SenderFrame_ReleaseEarly ==
    /\ cb_pc = "in"
    /\ cb_i < cb_n
    /\ cb_i' = cb_i + 1
    /\ CASE s_state = "IDLE" ->
              IF RingReadAvailable(s_widx, s_ridx) = 0
              THEN UNCHANGED <<s_state, s_msg, s_index, s_symbol, s_frame,
                               s_ridx, h_txdone, h_txcur, h_runs, h_zero, h_gaps,
                               s_phase, cb_first, h_out>>
              ELSE /\ s_symbol' = s_ring[RingSlot(s_ridx)][1]
                   /\ s_index' = 1
                   /\ s_frame' = 0
                   /\ s_state' = "TRANSMITTING"
                   /\ s_msg' = RingSlot(s_ridx)
                   /\ s_ridx' = RingAdvance(s_ridx, 1)
                   /\ h_txcur' = <<s_ring[RingSlot(s_ridx)][1]>>
                   /\ h_runs' = <<<<s_ring[RingSlot(s_ridx)][1], 1>>>>
                   /\ h_zero' = 0
                   /\ s_phase' = PhaseStep(s_phase, s_ring[RingSlot(s_ridx)][1])
                   /\ h_out' = Append(h_out, s_phase)
                   /\ cb_first' = FALSE
                   /\ UNCHANGED <<h_txdone, h_gaps>>
         [] s_state = "TRANSMITTING" ->
              Transmitting(cb_first, s_msg, s_index, s_frame)
         [] s_state = "INTERPACKET_GAP" ->
              IF GapOver(s_frame + 1)
              THEN /\ s_frame' = s_frame + 1
                   /\ s_state' = "IDLE"
                   /\ h_zero' = h_zero + 1
                   /\ h_out' = Append(h_out, ZeroSample)
                   /\ UNCHANGED <<s_ridx, s_msg, s_index, s_symbol, h_txdone,
                                  h_txcur, h_runs, h_gaps, s_phase, cb_first>>
              ELSE /\ s_frame' = s_frame + 1
                   /\ h_zero' = h_zero + 1
                   /\ h_out' = Append(h_out, ZeroSample)
                   /\ UNCHANGED <<s_state, s_ridx, s_msg, s_index, s_symbol,
                                  h_txdone, h_txcur, h_runs, h_gaps, s_phase, cb_first>>
    /\ cb_busy' = (cb_busy \/ ~(s_state = "IDLE"
                                    /\ RingReadAvailable(s_widx, s_ridx) = 0))
    /\ UNCHANGED <<symbol_width, sample_rate, baud, s_ring, s_widx, cb_pc,
                   cb_n, t_pc, t_msg, t_count, h_sent, t_limit, t_blocked>>
    /\ UNCHANGED <<sendOthers, rxVars>>

\* the mutant of SenderFrame: a message waiting in the ring is picked up
\* from INTERPACKET_GAP, without the gap
SenderFrame_SkipGap ==
    /\ cb_pc = "in"
    /\ cb_i < cb_n
    /\ cb_i' = cb_i + 1
    /\ CASE s_state = "IDLE" ->
              IF RingReadAvailable(s_widx, s_ridx) = 0
              THEN UNCHANGED <<s_state, s_msg, s_index, s_symbol, s_frame,
                               s_ridx, h_txdone, h_txcur, h_runs, h_zero, h_gaps,
                               s_phase, cb_first, h_out>>
              ELSE Transmitting(TRUE, RingSlot(s_ridx), 0, s_frame)
         [] s_state = "TRANSMITTING" ->
              Transmitting(cb_first, s_msg, s_index, s_frame)
         [] s_state = "INTERPACKET_GAP" ->
              /\ s_frame' = s_frame + 1
              /\ s_ridx' = RingAdvance(s_ridx, 1)
              /\ s_state' = "IDLE"
              /\ h_zero' = h_zero + 1
              /\ h_out' = Append(h_out, ZeroSample)
              /\ UNCHANGED <<s_msg, s_index, s_symbol, h_txdone, h_txcur,
                             h_runs, h_gaps, s_phase, cb_first>>
    /\ cb_busy' = (cb_busy \/ ~(s_state = "IDLE"
                                    /\ RingReadAvailable(s_widx, s_ridx) = 0))
    /\ UNCHANGED <<symbol_width, sample_rate, baud, s_ring, s_widx, cb_pc,
                   cb_n, t_pc, t_msg, t_count, h_sent, t_limit, t_blocked>>
    /\ UNCHANGED <<sendOthers, rxVars>>

\* one round of sender_callback's loop over the frames of the buffer; the
\* zero samples written while IDLE with an empty ring are not counted
SenderFrame ==
    /\ cb_pc = "in"
    /\ cb_i < cb_n
    /\ cb_i' = cb_i + 1
    /\ CASE s_state = "IDLE" ->
              IF RingReadAvailable(s_widx, s_ridx) = 0
              THEN UNCHANGED <<s_state, s_msg, s_index, s_symbol, s_frame,
                               s_ridx, h_txdone, h_txcur, h_runs, h_zero, h_gaps,
                               s_phase, cb_first, h_out>>
              ELSE Transmitting(TRUE, RingSlot(s_ridx), 0, s_frame)
         [] s_state = "TRANSMITTING" ->
              Transmitting(cb_first, s_msg, s_index, s_frame)
         [] s_state = "INTERPACKET_GAP" ->
              IF GapOver(s_frame + 1)
              THEN /\ s_frame' = s_frame + 1
                   /\ s_ridx' = RingAdvance(s_ridx, 1)
                   /\ s_state' = "IDLE"
                   /\ h_zero' = h_zero + 1
                   /\ h_out' = Append(h_out, ZeroSample)
                   /\ UNCHANGED <<s_msg, s_index, s_symbol, h_txdone, h_txcur,
                                  h_runs, h_gaps, s_phase, cb_first>>
              ELSE /\ s_frame' = s_frame + 1
                   /\ h_zero' = h_zero + 1
                   /\ h_out' = Append(h_out, ZeroSample)
                   /\ UNCHANGED <<s_state, s_ridx, s_msg, s_index, s_symbol,
                                  h_txdone, h_txcur, h_runs, h_gaps, s_phase, cb_first>>
    /\ cb_busy' = (cb_busy \/ ~(s_state = "IDLE"
                                    /\ RingReadAvailable(s_widx, s_ridx) = 0))
    /\ UNCHANGED <<symbol_width, sample_rate, baud, s_ring, s_widx, cb_pc,
                   cb_n, t_pc, t_msg, t_count, h_sent, t_limit, t_blocked>>
    /\ UNCHANGED <<sendOthers, rxVars>>

\* what the audio callback leaves alone on the receive side
rxInput == <<rx_packet, rx_frame, rx_hold, rx_lead, rx_tail, rx_gap,
             rx_packet2, rx_frame2>>

\* sender_callback's loop is over.  With an input buffer and the modulator
\* idle now, receiver_callback writes the whole input buffer to the receive
\* ring, after asserting that the ring has room for it; then sofi_callback
\* returns paContinue
CallbackEnd ==
    /\ cb_pc = "in"
    /\ cb_i = cb_n
    /\ IF params.receiver /\ s_state = "IDLE"
       THEN IF RecvWriteAvailable >= cb_n
            THEN /\ rb_written' = rb_written + cb_n
                 /\ h_heard' = (h_heard \/ cb_busy)
                 /\ cb_pc' = "out"
            ELSE /\ cb_pc' = "aborted"
                 /\ UNCHANGED <<rb_written, h_heard>>
       ELSE /\ cb_pc' = "out"
            /\ UNCHANGED <<rb_written, h_heard>>
    /\ UNCHANGED <<symbol_width, sample_rate, baud, s_ring, s_widx, s_ridx,
                   s_state, s_msg, s_index, s_symbol, s_frame, cb_i, cb_n,
                   t_pc, t_msg, t_count, h_sent, h_txdone, h_txcur, t_limit,
                   t_blocked, h_runs, h_zero, h_gaps, s_phase, cb_busy, cb_first, h_out>>
    /\ UNCHANGED <<sendOthers, rxInput, rx_pos, rx_state, rx_msg, h_rx>>

SendNext ==
    \/ \E packet \in SendPackets : SendCall(packet)
    \/ SendWriteTry
    \/ SendCopy
    \/ SendPublish
    \/ \E n \in 1..MaxFramesPerBuffer : CallbackBegin(n)
    \/ SenderFrame
    \/ CallbackEnd

-----------------------------------------------------------------------------
(* The modulator alone on a ring that already holds its messages, the      *)
(* audio host choosing frames_per_buffer call by call; and what an audio   *)
(* host that asks for one frame per call gets.                             *)

SplitInit ==
    /\ \E w \in SendWidths, c \in RateConfigs :
            LifeUp(Params(c[1], c[2], <<1, 5>>, w, TRUE, FALSE, c[3]))
    /\ CodecIdle
    /\ QueueIdle
    /\ RxIdle
    /\ SelIdle
    /\ FrontIdle
    /\ \E n \in 1..SENDER_BUFFER_SIZE : \E ps \in SeqsOf(SendPackets, n) :
            /\ h_sent = [i \in 1..n |-> SendEncode(ps[i], symbol_width)]
            /\ s_widx = n
            /\ t_count = n
            /\ t_limit = n
    /\ s_ring = [i \in 0..(SENDER_BUFFER_SIZE - 1) |->
                     IF i < Len(h_sent) THEN h_sent[i + 1] ELSE <<>>]
    /\ s_ridx = 0
    /\ s_state = "IDLE"
    /\ s_msg = 0
    /\ s_index = 0
    /\ s_symbol = 0
    /\ s_frame = 0
    /\ cb_pc = "out"
    /\ cb_i = 0
    /\ cb_n = 0
    /\ t_pc = "idle"
    /\ t_msg = <<>>
    /\ h_txdone = <<>>
    /\ h_txcur = <<>>
    /\ t_blocked = FALSE
    /\ h_runs = <<>>
    /\ h_zero = 0
    /\ h_gaps = <<>>
    /\ s_phase = 0
    /\ cb_busy = FALSE
    /\ cb_first = FALSE
    /\ h_out = <<>>

SplitNext ==
    \/ \E n \in 1..MaxSplitFrames : CallbackBegin(n)
    \/ SenderFrame
    \/ CallbackEnd

\* struct sender_callback_data before the first callback, with the samples
\* written so far
ModStart ==
    [state |-> "IDLE", msg |-> 0, index |-> 0, symbol |-> 0, frame |-> 0,
     phase |-> 0, ridx |-> 0, out |-> <<>>]

\* case SEND_STATE_TRANSMITTING of a sender_callback call for one frame
OneFrameTransmitting(first, m) ==
    IF first \/ SymbolOver(m.frame + 1)
    THEN IF m.index >= Len(s_ring[m.msg])
         THEN [m EXCEPT !.state = "INTERPACKET_GAP", !.frame = 0,
                        !.out = Append(@, ZeroSample)]
         ELSE [m EXCEPT !.state = "TRANSMITTING",
                        !.symbol = s_ring[m.msg][m.index + 1],
                        !.index = @ + 1, !.frame = 0,
                        !.out = Append(@, m.phase),
                        !.phase = PhaseStep(@, s_ring[m.msg][m.index + 1])]
    ELSE [m EXCEPT !.frame = @ + 1, !.out = Append(@, m.phase),
                   !.phase = PhaseStep(@, m.symbol)]

\* sender_callback(output_buffer, 1, data): a whole call for one frame, its
\* local first clear at the start; the zero written while idle with an
\* empty ring is left out, as in h_out
OneFrameCallback(m) ==
    CASE m.state = "IDLE" ->
             IF RingReadAvailable(s_widx, m.ridx) = 0
             THEN m
             ELSE OneFrameTransmitting(TRUE, [m EXCEPT !.msg = RingSlot(m.ridx),
                                                       !.index = 0])
      [] m.state = "TRANSMITTING" -> OneFrameTransmitting(FALSE, m)
      [] m.state = "INTERPACKET_GAP" ->
             IF GapOver(m.frame + 1)
             THEN [m EXCEPT !.frame = @ + 1, !.ridx = RingAdvance(@, 1),
                            !.state = "IDLE", !.out = Append(@, ZeroSample)]
             ELSE [m EXCEPT !.frame = @ + 1, !.out = Append(@, ZeroSample)]

\* the modulator after k calls for one frame each
OneFrameRun(k) ==
    LET run[i \in 0..k] == IF i = 0 THEN ModStart
                           ELSE OneFrameCallback(run[i - 1])
    IN  run[k]

-----------------------------------------------------------------------------
(* The life cycle: the main thread calls sofi_init, the library works, and *)
(* the main thread calls sofi_destroy once.                                *)

\* what sofi_destroy leaves alone in the sender's state
sendState == <<s_ring, s_state, s_msg, s_index, s_symbol, s_frame, cb_pc, cb_i,
               cb_n, t_pc, t_msg, t_count, h_sent, h_txdone, h_txcur, t_limit,
               t_blocked, h_runs, h_zero, h_gaps, s_phase, cb_busy, cb_first, h_out>>

\* init_ret before sofi_init has returned (sofi_init returns 0 or -1)
NotReturned == 1

\* the zeroed statics before sofi_init; no parameters have been given yet
NoParams == Params(0, 0, <<0, 1>>, 0, FALSE, FALSE, 0)

LifeStart ==
    /\ params = NoParams
    /\ sample_rate = 0
    /\ baud = 0
    /\ recv_window_factor = <<0, 1>>
    /\ symbol_width = 0
    /\ l_pc = "start"
    /\ init_ret = NotReturned
    /\ stream = "none"
    /\ receiver_thread = "none"
    /\ h_life = {}
    /\ sender_buffer_ptr = "null"
    /\ receiver_buffer_ptr = "null"
    /\ window_buffer = "null"
    /\ pa_initialized = FALSE
    /\ debug_level = 0
    /\ l_calls = 0

\* the parameters the main thread may pass to sofi_init on the receive
\* side: the three directions, and one parameter at a time out of range
LifeParams ==
    { Params(4, 1, <<1, 4>>, 8, TRUE, TRUE, 2),
      Params(4, 1, <<1, 4>>, 8, TRUE, FALSE, 2),
      Params(4, 1, <<1, 4>>, 8, FALSE, TRUE, 2),
      Params(4, 0, <<1, 4>>, 8, TRUE, TRUE, 2),
      Params(0, 1, <<1, 4>>, 8, TRUE, TRUE, 2),
      Params(4, 1, <<1, 4>>, 3, TRUE, TRUE, 2),
      Params(4, 1, <<0, 1>>, 8, TRUE, TRUE, 2) }

\* the parameters on the send side
LifeSendParams ==
    { Params(2, 1, <<1, 4>>, 8, TRUE, TRUE, 2),
      Params(2, 1, <<1, 4>>, 8, TRUE, FALSE, 2),
      Params(3, 2, <<1, 4>>, 8, TRUE, TRUE, 2) }

\* what the demodulator hears in these runs
LifeScripts == { <<"good">>, <<"flip", "good">> }

LifeInit ==
    /\ LifeStart
    /\ l_limit = 1
    /\ CodecIdle
    /\ SendIdle
    /\ RxIdle
    /\ SelIdle
    /\ FrontIdle
    /\ recv_queue = [i \in 0..(RECV_QUEUE_CAP - 1) |-> <<>>]
    /\ recv_queue_start = 0
    /\ recv_queue_size = 0
    /\ recv_queue_lock = "free"
    /\ d_pc = "loop"
    /\ d_msg = <<>>
    /\ d_count = 0
    /\ d_limit = MaxEnqLife
    /\ d_script \in LifeScripts
    /\ r_pc = "idle"
    /\ r_msg = <<>>
    /\ r_packet = [len |-> 0, payload |-> <<>>]
    /\ h_accepted = <<>>
    /\ h_dropped = <<>>
    /\ h_dequeued = <<>>
    /\ h_delivered = <<>>

LifeSendInit ==
    /\ LifeStart
    /\ l_limit = 1
    /\ CodecIdle
    /\ QueueIdle
    /\ RxIdle
    /\ SelIdle
    /\ FrontIdle
    /\ s_ring = [i \in 0..(SENDER_BUFFER_SIZE - 1) |-> <<>>]
    /\ s_widx = 0
    /\ s_ridx = 0
    /\ s_state = "IDLE"
    /\ s_msg = 0
    /\ s_index = 0
    /\ s_symbol = 0
    /\ s_frame = 0
    /\ cb_pc = "out"
    /\ cb_i = 0
    /\ cb_n = 0
    /\ t_pc = "idle"
    /\ t_msg = <<>>
    /\ t_count = 0
    /\ h_sent = <<>>
    /\ h_txdone = <<>>
    /\ h_txcur = <<>>
    /\ t_limit = MaxSendsLife
    /\ t_blocked = FALSE
    /\ h_runs = <<>>
    /\ h_zero = 0
    /\ h_gaps = <<>>
    /\ s_phase = 0
    /\ cb_busy = FALSE
    /\ cb_first = FALSE
    /\ h_out = <<>>

\* the steps of sofi_init that can fail, in the order sofi_init takes them
InitSteps ==
    <<"malloc sender_buffer_ptr", "malloc receiver_buffer_ptr",
      "malloc window_buffer", "Pa_Initialize", "Pa_OpenStream",
      "Pa_StartStream", "pthread_create">>

\* the step that fails in a call of sofi_init, or "none"
InitFailures == {InitSteps[k] : k \in 1..Len(InitSteps)} \cup {"none"}

\* the place of the failing step in sofi_init (after the last: none fails)
StepOf(fail) ==
    IF fail = "none" THEN Len(InitSteps) + 1
    ELSE CHOOSE k \in 1..Len(InitSteps) : InitSteps[k] = fail

\* free(ptr): nothing for a null pointer; the pointer keeps its value
FreeBuffer(ptr) == IF ptr = "allocated" THEN "freed" ELSE ptr

\* the frees of buffers already freed in free(s); free(r); free(w)
DoubleFrees(s, r, w) ==
    {x \in {"double free of sender_buffer_ptr"} : s = "freed"}
        \cup {x \in {"double free of receiver_buffer_ptr"} : r = "freed"}
        \cup {x \in {"double free of window_buffer"} : w = "freed"}

\* sofi_init(p), fail being the step that fails.  The parameters are copied
\* to the statics unchecked; the buffers are allocated and the rings set up
\* for the directions asked for; PortAudio is initialised, the stream
\* opened and started and the demodulator thread created.  When a step
\* fails, what was started is undone from the labels stop_stream,
\* close_stream, terminate and err, all three buffer pointers are passed to
\* free, and -1 is returned.  Freeing a buffer that has been freed already
\* is undefined: the call may go on, or bring the process down.  Nothing
\* else is set: not the modulator's state, not the receive queue.
sofi_init(p, fail) ==
    /\ l_pc \in {"start", "failed", "down"}
    /\ l_calls < l_limit
    /\ fail = "malloc sender_buffer_ptr" => p.sender
    /\ fail \in {"malloc receiver_buffer_ptr", "malloc window_buffer",
                 "pthread_create"} => p.receiver
    /\ l_calls' = l_calls + 1
    /\ params' = p
    /\ sample_rate' = p.sample_rate
    /\ baud' = p.baud
    /\ recv_window_factor' = p.recv_window_factor
    /\ symbol_width' = p.symbol_width
    /\ debug_level' = p.debug_level
    /\ IF p.sender /\ StepOf(fail) >= 2
       THEN s_widx' = 0 /\ s_ridx' = 0 /\ s_phase' = 0
       ELSE UNCHANGED <<s_widx, s_ridx, s_phase>>
    /\ IF p.receiver /\ StepOf(fail) >= 3
       THEN rb_written' = 0 /\ rx_pos' = 0
       ELSE UNCHANGED <<rb_written, rx_pos>>
    /\ LET sptr == IF p.sender
                   THEN IF StepOf(fail) = 1 THEN "null" ELSE "allocated"
                   ELSE sender_buffer_ptr
           rptr == IF p.receiver /\ StepOf(fail) >= 2
                   THEN IF StepOf(fail) = 2 THEN "null" ELSE "allocated"
                   ELSE receiver_buffer_ptr
           wptr == IF p.receiver /\ StepOf(fail) >= 3
                   THEN IF StepOf(fail) = 3 THEN "null" ELSE "allocated"
                   ELSE window_buffer
       IN  IF fail = "none"
           THEN /\ sender_buffer_ptr' = sptr
                /\ receiver_buffer_ptr' = rptr
                /\ window_buffer' = wptr
                /\ pa_initialized' = TRUE
                /\ stream' = "running"
                /\ receiver_thread' = IF p.receiver THEN "running"
                                      ELSE receiver_thread
                /\ rx_state' = IF p.receiver THEN "LISTEN" ELSE rx_state
                /\ d_pc' = IF p.receiver THEN "loop" ELSE d_pc
                /\ init_ret' = 0
                /\ l_pc' = "up"
                /\ UNCHANGED h_life
           ELSE /\ sender_buffer_ptr' = FreeBuffer(sptr)
                /\ receiver_buffer_ptr' = FreeBuffer(rptr)
                /\ window_buffer' = FreeBuffer(wptr)
                /\ pa_initialized' = FALSE
                /\ stream' = IF StepOf(fail) >= 6 THEN "closed" ELSE stream
                /\ h_life' = h_life \cup DoubleFrees(sptr, rptr, wptr)
                /\ \/ l_pc' = "failed" /\ init_ret' = -1
                   \/ /\ DoubleFrees(sptr, rptr, wptr) # {}
                      /\ l_pc' = "crashed"
                      /\ init_ret' = NotReturned
                /\ UNCHANGED <<receiver_thread, rx_state, d_pc>>
    /\ UNCHANGED <<l_limit, s_ring, s_state, s_msg, s_index, s_symbol, s_frame,
                   cb_pc, cb_i, cb_n, t_pc, t_msg, t_count, h_sent, h_txdone,
                   h_txcur, t_limit, t_blocked, h_runs, h_zero, h_gaps,
                   cb_busy, cb_first, h_out>>
    /\ UNCHANGED <<recv_queue, recv_queue_start, recv_queue_size,
                   recv_queue_lock, d_msg, d_count, d_limit, d_script, r_pc,
                   r_msg, r_packet, h_accepted, h_dropped, h_dequeued,
                   h_delivered>>
    /\ UNCHANGED <<rxInput, rx_msg, h_heard, h_rx, codecVars, selVars,
                   frontVars>>

\* the main thread calls sofi_destroy, the client's sofi_send calls over
DestroyCall ==
    /\ l_pc = "up"
    /\ t_pc = "idle"
    /\ l_pc' = "cancel"
    /\ UNCHANGED <<symbol_width, params, recv_window_factor, init_ret, stream,
                   receiver_thread, h_life, sample_rate, baud, s_widx, s_ridx,
                   sendState, codecVars,
                   queueVars, rxVars, selVars, frontVars, resVars>>

\* pthread_cancel(receiver_thread), whether or not sofi_init created the
\* thread; on a pthread_t that names no thread the call is undefined: it
\* may return an error, which is ignored, or bring the process down
DestroyCancel ==
    /\ l_pc = "cancel"
    /\ IF receiver_thread = "running"
       THEN /\ receiver_thread' = "cancelled"
            /\ l_pc' = "join"
            /\ UNCHANGED h_life
       ELSE /\ h_life' = h_life \cup {"cancel of no thread"}
            /\ l_pc' \in {"join", "crashed"}
            /\ UNCHANGED receiver_thread
    /\ UNCHANGED <<symbol_width, params, recv_window_factor, init_ret, stream,
                   sample_rate, baud, s_widx, s_ridx, sendState, codecVars,
                   queueVars, rxVars, selVars, frontVars, resVars>>

\* the demodulator is where a pending cancellation can act on it: at
\* pthread_testcancel or in Pa_Sleep in receiver_loop, or in the write to
\* stderr debug_printf(1, "recv_queue overflow\n") makes inside
\* recv_queue_enqueue when the queue is full and debug_level >= 1
AtCancellationPoint ==
    \/ d_pc = "loop"
    \/ d_pc = "body" /\ recv_queue_size >= RECV_QUEUE_CAP /\ debug_level >= 1

\* pthread_join(receiver_thread, NULL): the demodulator acts on the
\* cancellation at a cancellation point and ends there, with whatever it
\* holds; a write to stderr need not act on it
DestroyJoin ==
    /\ l_pc = "join"
    /\ IF receiver_thread = "cancelled"
       THEN /\ AtCancellationPoint
            /\ receiver_thread' = "joined"
            /\ d_pc' = IF d_pc = "loop" THEN d_pc ELSE "gone"
            /\ l_pc' = "drain"
            /\ UNCHANGED h_life
       ELSE /\ h_life' = h_life \cup {"join of no thread"}
            /\ l_pc' \in {"drain", "crashed"}
            /\ UNCHANGED <<receiver_thread, d_pc>>
    /\ UNCHANGED <<symbol_width, params, recv_window_factor, init_ret, stream,
                   sample_rate, baud, s_widx, s_ridx, sendState, codecVars,
                   rxVars, selVars, frontVars, resVars>>
    /\ UNCHANGED <<recv_queue, recv_queue_start, recv_queue_size,
                   recv_queue_lock, d_msg, d_count, d_limit, d_script, r_pc,
                   r_msg, r_packet, h_accepted, h_dropped, h_dequeued,
                   h_delivered>>

\* the mutant of DestroyDrain: the stream is stopped without the wait
DestroyDrain_NoWait ==
    /\ l_pc = "drain"
    /\ l_pc' = "stop"
    /\ h_life' = IF params.sender THEN h_life
                 ELSE h_life \cup {"read of a ring never set up"}
    /\ UNCHANGED <<symbol_width, params, recv_window_factor, init_ret, stream,
                   receiver_thread, sample_rate, baud, s_widx, s_ridx,
                   sendState, codecVars,
                   queueVars, rxVars, selVars, frontVars, resVars>>

\* while (PaUtil_GetRingBufferReadAvailable(&data.sender.buffer) > 0)
\* Pa_Sleep(...); then Pa_Sleep(100).  The ring is read whether or not
\* sofi_init set it up (it is then the zeroed static, which reads as empty).
DestroyDrain ==
    /\ l_pc = "drain"
    /\ l_pc' = IF RingReadAvailable(s_widx, s_ridx) > 0 THEN "drain" ELSE "stop"
    /\ h_life' = IF params.sender THEN h_life
                 ELSE h_life \cup {"read of a ring never set up"}
    /\ UNCHANGED <<symbol_width, params, recv_window_factor, init_ret, stream,
                   receiver_thread, sample_rate, baud, s_widx, s_ridx,
                   sendState, codecVars,
                   queueVars, rxVars, selVars, frontVars, resVars>>

\* Pa_StopStream (which lets the running callback finish), Pa_CloseStream,
\* Pa_Terminate, the three free calls; sofi_destroy returns
DestroyStop ==
    /\ l_pc = "stop"
    /\ cb_pc = "out"
    /\ stream' = "closed"
    /\ pa_initialized' = FALSE
    /\ sender_buffer_ptr' = FreeBuffer(sender_buffer_ptr)
    /\ receiver_buffer_ptr' = FreeBuffer(receiver_buffer_ptr)
    /\ window_buffer' = FreeBuffer(window_buffer)
    /\ h_life' = h_life \cup DoubleFrees(sender_buffer_ptr, receiver_buffer_ptr,
                                         window_buffer)
    /\ \/ l_pc' = "down"
       \/ /\ DoubleFrees(sender_buffer_ptr, receiver_buffer_ptr,
                         window_buffer) # {}
          /\ l_pc' = "crashed"
    /\ UNCHANGED <<symbol_width, params, recv_window_factor, init_ret,
                   receiver_thread, sample_rate, baud, s_widx, s_ridx,
                   sendState, codecVars, queueVars, rxVars, selVars,
                   frontVars,
                   debug_level, l_calls, l_limit>>

sofi_destroy == DestroyCall \/ DestroyCancel \/ DestroyJoin \/ DestroyDrain \/ DestroyStop

LifeNext ==
    \/ \E p \in LifeParams, fail \in InitFailures : sofi_init(p, fail)
    \/ DemodCloseFrame
    \/ EnqLock
    \/ EnqBody
    \/ EnqUnlock
    \/ RecvCall
    \/ DeqLock
    \/ DeqCheck
    \/ DeqSpuriousWake
    \/ DeqUnlock
    \/ RecvDecode
    \/ DestroyCall
    \/ DestroyCancel
    \/ DestroyJoin
    \/ DestroyDrain
    \/ DestroyStop

LifeSendNext ==
    \/ \E p \in LifeSendParams, fail \in InitFailures : sofi_init(p, fail)
    \/ \E packet \in SendPackets : SendCall(packet)
    \/ SendWriteTry
    \/ SendCopy
    \/ SendPublish
    \/ \E n \in 1..MaxFramesPerBuffer : CallbackBegin(n)
    \/ SenderFrame
    \/ CallbackEnd
    \/ DestroyCall
    \/ DestroyCancel
    \/ DestroyJoin
    \/ DestroyDrain
    \/ DestroyStop

\* the life cycle with sofi_init called again after a failure or after
\* sofi_destroy, with any selection of directions each time
RelifeParams ==
    { Params(4, 1, <<1, 4>>, 8, TRUE, TRUE, 2),
      Params(4, 1, <<1, 4>>, 8, TRUE, FALSE, 2),
      Params(4, 1, <<1, 4>>, 8, FALSE, TRUE, 2) }

RelifeInit ==
    /\ LifeStart
    /\ l_limit = MaxInits
    /\ CodecIdle
    /\ SendIdle
    /\ RxIdle
    /\ SelIdle
    /\ FrontIdle
    /\ recv_queue = [i \in 0..(RECV_QUEUE_CAP - 1) |-> <<>>]
    /\ recv_queue_start = 0
    /\ recv_queue_size = 0
    /\ recv_queue_lock = "free"
    /\ d_pc = "loop"
    /\ d_msg = <<>>
    /\ d_count = 0
    /\ d_limit = MaxEnqRelife
    /\ d_script = <<"good">>
    /\ r_pc = "idle"
    /\ r_msg = <<>>
    /\ r_packet = [len |-> 0, payload |-> <<>>]
    /\ h_accepted = <<>>
    /\ h_dropped = <<>>
    /\ h_dequeued = <<>>
    /\ h_delivered = <<>>

RelifeNext ==
    \/ \E p \in RelifeParams, fail \in InitFailures : sofi_init(p, fail)
    \/ DemodCloseFrame
    \/ EnqLock
    \/ EnqBody
    \/ EnqUnlock
    \/ RecvCall
    \/ DeqLock
    \/ DeqCheck
    \/ DeqSpuriousWake
    \/ DeqUnlock
    \/ RecvDecode
    \/ DestroyCall
    \/ DestroyCancel
    \/ DestroyJoin
    \/ DestroyDrain
    \/ DestroyStop

\* sofi_destroy called while the demodulator fills the receive queue, with
\* debug_level 0 or 1
CancelInit ==
    /\ \E dl \in {0, 1} :
           LifeUp([Params(4, 1, <<1, 4>>, 8, FALSE, TRUE, 2)
                       EXCEPT !.debug_level = dl])
    /\ CodecIdle
    /\ SendIdle
    /\ RxIdle
    /\ SelIdle
    /\ FrontIdle
    /\ recv_queue = [i \in 0..(RECV_QUEUE_CAP - 1) |-> <<>>]
    /\ recv_queue_start = 0
    /\ recv_queue_size = 0
    /\ recv_queue_lock = "free"
    /\ d_pc = "loop"
    /\ d_msg = <<>>
    /\ d_count = 0
    /\ d_limit = MaxEnqCancel
    /\ d_script = <<"good">>
    /\ r_pc = "idle"
    /\ r_msg = <<>>
    /\ r_packet = [len |-> 0, payload |-> <<>>]
    /\ h_accepted = <<>>
    /\ h_dropped = <<>>
    /\ h_dequeued = <<>>
    /\ h_delivered = <<>>

CancelNext ==
    \/ DemodCloseFrame
    \/ EnqLock
    \/ EnqBody
    \/ EnqUnlock
    \/ RecvCall
    \/ DeqLock
    \/ DeqCheck
    \/ DeqSpuriousWake
    \/ DeqUnlock
    \/ RecvDecode
    \/ DestroyCall
    \/ DestroyCancel
    \/ DestroyJoin
    \/ DestroyDrain
    \/ DestroyStop

-----------------------------------------------------------------------------
(* The demodulator: receiver_loop reads the input samples window by        *)
(* window.  The input holds one frame between two silences, as the         *)
(* library's own modulator writes it; the audio callback has put all of it *)
(* in the receive ring (receiver_loop sleeps until a whole window is       *)
(* there, so when the samples arrive does not change what it reads).       *)

\* receiver_window(): (int)(recv_window_factor / baud * (float)sample_rate)
receiver_window ==
    (recv_window_factor[1] * sample_rate) \div (recv_window_factor[2] * baud)

\* the window in DEMODULATE: (int)((float)sample_rate / baud)
SymbolWindow == sample_rate \div baud

\* samples sender_callback holds a symbol for: the least f with SymbolOver(f)
SymbolHold(sr, bd) == (sr + bd - 1) \div bd

\* the mutant of GapSamples: the gap lasts one symbol time, not two
GapSamples_OneSymbol(sr, bd) == (sr + bd - 1) \div bd

\* samples of the gap: the least f with GapOver(f)
GapSamples(sr, bd) == (2 * sr + bd - 1) \div bd

InputLen ==
    rx_lead + Len(rx_frame) * rx_hold + rx_gap + Len(rx_frame2) * rx_hold
        + rx_tail

\* the i-th input sample (from 0): the symbol whose tone it belongs to, or
\* -1 in the silences
SampleAt(i) ==
    LET endA == rx_lead + Len(rx_frame) * rx_hold
        startB == endA + rx_gap
        endB == startB + Len(rx_frame2) * rx_hold
    IN  IF i >= rx_lead /\ i < endA
        THEN rx_frame[((i - rx_lead) \div rx_hold) + 1]
        ELSE IF i >= startB /\ i < endB
             THEN rx_frame2[((i - startB) \div rx_hold) + 1]
             ELSE -1

CountIn(pos, size, sym) ==
    Cardinality({j \in pos..(pos + size - 1) : SampleAt(j) = sym})

\* the mutant of Classify: a window that holds a silent sample is silence
Classify_WholeWindow(pos, size) ==
    LET present == {SampleAt(j) : j \in pos..(pos + size - 1)}
    IN  IF present = {} \/ -1 \in present
        THEN -1
        ELSE CHOOSE sym \in present :
                 \A t \in present :
                     \/ CountIn(pos, size, sym) > CountIn(pos, size, t)
                     \/ /\ CountIn(pos, size, sym) = CountIn(pos, size, t)
                        /\ sym <= t

\* the correlator on an ideal channel: the strength of a symbol in a window
\* grows with the number of samples of its tone; any sample of a tone lifts
\* it over the silence floor; the loop keeps the first of equal strengths
Classify(pos, size) ==
    LET present == {SampleAt(j) : j \in pos..(pos + size - 1)} \ {-1}
    IN  IF present = {}
        THEN -1
        ELSE CHOOSE sym \in present :
                 \A t \in present :
                     \/ CountIn(pos, size, sym) > CountIn(pos, size, t)
                     \/ /\ CountIn(pos, size, sym) = CountIn(pos, size, t)
                        /\ sym <= t

\* sample_rate, baud and recv_window_factor: the LISTEN window is 2, 1, 3,
\* 4, 8 and 0 samples of a symbol of 8, 2 of a symbol of 6, and 1 where the
\* symbol time is 4.5 samples
DemodConfigs ==
    { <<8, 1, <<1, 4>>>>, <<8, 1, <<1, 8>>>>, <<8, 1, <<3, 8>>>>,
      <<8, 1, <<1, 2>>>>, <<8, 1, <<1, 1>>>>, <<8, 1, <<1, 10>>>>,
      <<6, 1, <<1, 3>>>>, <<9, 2, <<1, 4>>>> }

DemodWidths == {4, 8}

DemodInit ==
    /\ \E w \in DemodWidths, c \in DemodConfigs :
            LifeUp(Params(c[1], c[2], c[3], w, FALSE, TRUE, 2))
    /\ CodecIdle
    /\ QueueIdle
    /\ SendIdle
    /\ SelIdle
    /\ FrontIdle
    /\ rx_packet \in SendPackets
    /\ rx_frame = SendEncode(rx_packet, symbol_width)
    /\ rx_hold = SymbolHold(sample_rate, baud)
    /\ \E a \in 0..MaxAlign : rx_lead = GapSamples(sample_rate, baud) + a
    /\ rx_tail = GapSamples(sample_rate, baud)
    /\ rx_pos = 0
    /\ rx_state = "LISTEN"
    /\ rx_msg = <<>>
    /\ rx_gap = 0
    /\ rx_packet2 = [len |-> 0, payload |-> <<>>]
    /\ rx_frame2 = <<>>
    /\ rb_written = InputLen
    /\ h_heard = FALSE
    /\ h_rx = {}

\* sample_rate, baud and recv_window_factor of the runs with two frames:
\* the window factor of the defaults and of the spec's end-to-end scenarios,
\* 0.2, with symbols of 5 and 10 samples
PairConfigs == { <<5, 1, <<1, 5>>>>, <<10, 1, <<1, 5>>>> }

\* two frames, the second as far behind the first as sender_callback puts
\* it when the second message is waiting in the ring: the zero sample of
\* the step out of TRANSMITTING and the zeros of INTERPACKET_GAP; or one
\* sample closer, the nominal gap
DemodPairInit ==
    /\ \E w \in DemodWidths, c \in PairConfigs :
            LifeUp(Params(c[1], c[2], c[3], w, FALSE, TRUE, 2))
    /\ CodecIdle
    /\ QueueIdle
    /\ SendIdle
    /\ SelIdle
    /\ FrontIdle
    /\ rx_packet \in SendPackets
    /\ rx_frame = SendEncode(rx_packet, symbol_width)
    /\ rx_packet2 \in SendPackets
    /\ rx_frame2 = SendEncode(rx_packet2, symbol_width)
    /\ rx_hold = SymbolHold(sample_rate, baud)
    /\ \E a \in 0..MaxAlign : rx_lead = GapSamples(sample_rate, baud) + a
    /\ \E z \in 0..1 : rx_gap = GapSamples(sample_rate, baud) + z
    /\ rx_tail = GapSamples(sample_rate, baud)
    /\ rx_pos = 0
    /\ rx_state = "LISTEN"
    /\ rx_msg = <<>>
    /\ rb_written = InputLen
    /\ h_heard = FALSE
    /\ h_rx = {}

\* a tone that lasts longer than the symbols array is long, at one sample a
\* symbol (sample_rate = baud, the LISTEN window a whole symbol), at every
\* symbol width
DemodLongInit ==
    /\ \E w \in SymbolWidths : LifeUp(Params(1, 1, <<1, 1>>, w, FALSE, TRUE, 2))
    /\ CodecIdle
    /\ QueueIdle
    /\ SendIdle
    /\ SelIdle
    /\ FrontIdle
    /\ rx_packet = [len |-> 0, payload |-> <<>>]
    /\ rx_frame = [i \in 1..(RawCap + MaxOver) |-> 0]
    /\ rx_hold = 1
    /\ rx_lead = 1
    /\ rx_tail = 1
    /\ rx_pos = 0
    /\ rx_state = "LISTEN"
    /\ rx_msg = <<>>
    /\ rx_gap = 0
    /\ rx_packet2 = [len |-> 0, payload |-> <<>>]
    /\ rx_frame2 = <<>>
    /\ rb_written = InputLen
    /\ h_heard = FALSE
    /\ h_rx = {}

\* the mutant of ReceiverWindow: LISTEN appends the symbol of the window in
\* which it detects the carrier
ReceiverWindow_AppendFirst ==
    /\ receiver_thread = "running"
    /\ d_pc = "loop"
    /\ LET window_size == IF rx_state = "LISTEN" THEN receiver_window
                          ELSE SymbolWindow
           symbol == Classify(rx_pos, window_size)
       IN  /\ RecvReadAvailable >= window_size
           /\ rx_pos' = rx_pos + window_size
           /\ h_rx' = h_rx \cup {IF window_size = 0 THEN "read nothing"
                                  ELSE "read"}
           /\ CASE rx_state = "LISTEN" /\ symbol # -1 ->
                     /\ rx_msg' = <<symbol>>
                     /\ rx_state' = "DEMODULATE"
                     /\ UNCHANGED <<d_msg, d_pc, d_count>>
                [] rx_state = "LISTEN" /\ symbol = -1 ->
                     UNCHANGED <<rx_msg, rx_state, d_msg, d_pc, d_count>>
                [] rx_state = "DEMODULATE" /\ symbol = -1 ->
                     /\ d_msg' = rx_msg
                     /\ d_pc' = "lock"
                     /\ d_count' = d_count + 1
                     /\ rx_state' = "LISTEN"
                     /\ UNCHANGED rx_msg
                [] rx_state = "DEMODULATE" /\ symbol # -1 ->
                     /\ rx_msg' = IF Len(rx_msg) < RawCap
                                  THEN Append(rx_msg, symbol) ELSE rx_msg
                     /\ UNCHANGED <<rx_state, d_msg, d_pc, d_count>>
    /\ UNCHANGED <<symbol_width, recv_queue, recv_queue_start, recv_queue_size,
                   recv_queue_lock, d_limit, d_script, r_pc, r_msg, r_packet,
                   h_accepted, h_dropped, h_dequeued, h_delivered>>
    /\ UNCHANGED <<rxInput, rb_written, h_heard>>
    /\ UNCHANGED <<codecVars, sendVars, lifeVars, selVars, frontVars>>

\* one round of receiver_loop with a whole window in the ring: the window is
\* read and classified; LISTEN starts a message on a carrier; DEMODULATE
\* appends the symbol, or on silence calls recv_queue_enqueue(&msg)
ReceiverWindow ==
    /\ receiver_thread = "running"
    /\ d_pc = "loop"
    /\ LET window_size == IF rx_state = "LISTEN" THEN receiver_window
                          ELSE SymbolWindow
           symbol == Classify(rx_pos, window_size)
       IN  /\ RecvReadAvailable >= window_size
           /\ rx_pos' = rx_pos + window_size
           /\ h_rx' = h_rx \cup {IF window_size = 0 THEN "read nothing"
                                  ELSE "read"}
           /\ CASE rx_state = "LISTEN" /\ symbol # -1 ->
                     /\ rx_msg' = <<>>
                     /\ rx_state' = "DEMODULATE"
                     /\ UNCHANGED <<d_msg, d_pc, d_count>>
                [] rx_state = "LISTEN" /\ symbol = -1 ->
                     UNCHANGED <<rx_msg, rx_state, d_msg, d_pc, d_count>>
                [] rx_state = "DEMODULATE" /\ symbol = -1 ->
                     /\ d_msg' = rx_msg
                     /\ d_pc' = "lock"
                     /\ d_count' = d_count + 1
                     /\ rx_state' = "LISTEN"
                     /\ UNCHANGED rx_msg
                [] rx_state = "DEMODULATE" /\ symbol # -1 ->
                     /\ rx_msg' = IF Len(rx_msg) < RawCap
                                  THEN Append(rx_msg, symbol) ELSE rx_msg
                     /\ UNCHANGED <<rx_state, d_msg, d_pc, d_count>>
    /\ UNCHANGED <<symbol_width, recv_queue, recv_queue_start, recv_queue_size,
                   recv_queue_lock, d_limit, d_script, r_pc, r_msg, r_packet,
                   h_accepted, h_dropped, h_dequeued, h_delivered>>
    /\ UNCHANGED <<rxInput, rb_written, h_heard>>
    /\ UNCHANGED <<codecVars, sendVars, lifeVars, selVars, frontVars>>

\* a round of receiver_loop with less than a window in the ring: Pa_Sleep
\* for the time of a window, and the round is over
ReceiverSleep ==
    /\ receiver_thread = "running"
    /\ d_pc = "loop"
    /\ RecvReadAvailable < (IF rx_state = "LISTEN" THEN receiver_window
                            ELSE SymbolWindow)
    /\ h_rx' = h_rx \cup {"sleep"}
    /\ UNCHANGED <<symbol_width, queueVars, rxInput, rx_pos, rx_state, rx_msg,
                   rb_written, h_heard>>
    /\ UNCHANGED <<codecVars, sendVars, lifeVars, selVars, frontVars>>

\* the demodulator thread alone
DemodLongNext ==
    \/ ReceiverWindow
    \/ ReceiverSleep
    \/ EnqLock
    \/ EnqBody
    \/ EnqUnlock

DemodNext ==
    \/ ReceiverWindow
    \/ ReceiverSleep
    \/ EnqLock
    \/ EnqBody
    \/ EnqUnlock
    \/ RecvCall
    \/ DeqLock
    \/ DeqCheck
    \/ DeqSpuriousWake
    \/ DeqUnlock
    \/ RecvDecode

-----------------------------------------------------------------------------
(* The choice of a window's symbol from the strengths of the symbols, as   *)
(* receiver_loop makes it.                                                 *)

\* max_strength = 100.f: what a symbol has to exceed not to be silence
SilenceFloor == 100

\* the strengths a symbol may have in the window: under, at and over the
\* floor
StrengthSet == {0, 99, 100, 101, 250}

\* the mutant of SelectSymbol: a symbol as strong as the strongest so far
\* replaces it
SelectSymbol_LastWins(strengths) ==
    LET loop[k \in 0..Len(strengths)] ==
            IF k = 0
            THEN [symbol |-> -1, max_strength |-> SilenceFloor]
            ELSE IF strengths[k] >= loop[k - 1].max_strength
                 THEN [symbol |-> k - 1, max_strength |-> strengths[k]]
                 ELSE loop[k - 1]
    IN  loop[Len(strengths)].symbol

\* symbol = -1; max_strength = 100.f; then for i from 0 to num_symbols() - 1:
\* if (strength > max_strength) { max_strength = strength; symbol = i; }
\* strengths[k] is the strength of symbol k - 1
SelectSymbol(strengths) ==
    LET loop[k \in 0..Len(strengths)] ==
            IF k = 0
            THEN [symbol |-> -1, max_strength |-> SilenceFloor]
            ELSE IF strengths[k] > loop[k - 1].max_strength
                 THEN [symbol |-> k - 1, max_strength |-> strengths[k]]
                 ELSE loop[k - 1]
    IN  loop[Len(strengths)].symbol

SelectWidths == {1, 2}

SelectInit ==
    /\ \E w \in SelectWidths : LifeUp([DefaultParams EXCEPT !.symbol_width = w])
    /\ CodecIdle
    /\ QueueIdle
    /\ SendIdle
    /\ RxIdle
    /\ FrontIdle
    /\ sel_in \in [1..num_symbols(symbol_width) -> StrengthSet]
    /\ sel_out = NotClassified

\* the loop over the symbols for one window
SelectWindow ==
    /\ sel_out = NotClassified
    /\ sel_out' = SelectSymbol(sel_in)
    /\ UNCHANGED <<symbol_width, sel_in, codecVars, queueVars, sendVars,
                   lifeVars, rxVars, frontVars>>

SelectNext == SelectWindow

-----------------------------------------------------------------------------
(* Both directions at once: the client's sofi_send calls, the audio        *)
(* callback with an output and an input buffer, and receiver_loop reading  *)
(* what the callback has written to the receive ring.                      *)

\* sample_rate, baud and recv_window_factor: symbols of 2 samples, with a
\* LISTEN window of 1 sample and of 0 samples
DuplexConfigs == { <<2, 1, <<1, 2>>>>, <<2, 1, <<1, 4>>>> }

\* the input is silence but for one burst of a tone, a symbol long
DuplexInit ==
    /\ \E c \in DuplexConfigs, snd \in BOOLEAN :
            LifeUp(Params(c[1], c[2], c[3], 8, snd, TRUE, 2))
    /\ CodecIdle
    /\ QueueIdle
    /\ SelIdle
    /\ FrontIdle
    /\ s_ring = [i \in 0..(SENDER_BUFFER_SIZE - 1) |-> <<>>]
    /\ s_widx = 0
    /\ s_ridx = 0
    /\ s_state = "IDLE"
    /\ s_msg = 0
    /\ s_index = 0
    /\ s_symbol = 0
    /\ s_frame = 0
    /\ cb_pc = "out"
    /\ cb_i = 0
    /\ cb_n = 0
    /\ t_pc = "idle"
    /\ t_msg = <<>>
    /\ t_count = 0
    /\ h_sent = <<>>
    /\ h_txdone = <<>>
    /\ h_txcur = <<>>
    /\ t_limit = MaxSendsOne
    /\ t_blocked = FALSE
    /\ h_runs = <<>>
    /\ h_zero = 0
    /\ h_gaps = <<>>
    /\ s_phase = 0
    /\ cb_busy = FALSE
    /\ cb_first = FALSE
    /\ h_out = <<>>
    /\ rx_packet = [len |-> 0, payload |-> <<>>]
    /\ rx_frame = <<1>>
    /\ rx_hold = SymbolHold(sample_rate, baud)
    /\ rx_lead = 1
    /\ rx_tail = 0
    /\ rx_pos = 0
    /\ rx_state = "LISTEN"
    /\ rx_msg = <<>>
    /\ rx_gap = 0
    /\ rx_packet2 = [len |-> 0, payload |-> <<>>]
    /\ rx_frame2 = <<>>
    /\ rb_written = 0
    /\ h_heard = FALSE
    /\ h_rx = {}

DuplexNext ==
    \/ \E packet \in SendPackets : SendCall(packet)
    \/ SendWriteTry
    \/ SendCopy
    \/ SendPublish
    \/ \E n \in 1..MaxFramesPerBuffer : CallbackBegin(n)
    \/ SenderFrame
    \/ CallbackEnd
    \/ ReceiverWindow
    \/ ReceiverSleep
    \/ EnqLock
    \/ EnqBody
    \/ EnqUnlock

-----------------------------------------------------------------------------
(* The front end (sofinc.c): main creates a thread that runs sender_loop   *)
(* and one that runs receiver_loop, joins them and calls sofi_destroy.     *)
(* The library is seen through its calls: sofi_send takes a packet (and    *)
(* may sleep, a cancellation point), sofi_recv returns the next packet the *)
(* library has for the caller (and waits on the condition variable, a      *)
(* cancellation point, when it has none).                                  *)

frontOthers == <<symbol_width, codecVars, queueVars, sendVars, lifeVars,
                 rxVars, selVars>>

\* the variables of main and of the two thread handles
mainVars == <<f_pc, f_status, sender_thread, nc_receiver_thread>>

optVars == <<keep_open, max_message_length, nc_sender, nc_receiver>>

senderLoopVars == <<fs_pc, fs_packet, fs_error, fs_status, f_stdin, h_read,
                    f_sent>>

receiverLoopVars == <<fr_pc, fr_packet, fr_status, f_incoming, h_recvd,
                      f_stdout, f_stdout_open>>

\* the sequences over S of length at most n
SeqsUpTo(S, n) == UNION {[1..k -> S] : k \in 0..n}

\* the bytes on standard input
StdinBytes == {1, 2}

\* the packets the library may return from sofi_recv: the zero-length packet
\* that closes a stream, and payloads of one and two bytes
IncomingPackets == {<<>>, <<7>>, <<8, 9>>}

\* fread(packet.payload, 1, max_message_length, stdin): the bytes up to
\* max_message_length, fewer only at the end of the input
Fread(input, n) == SubSeq(input, 1, IF Len(input) < n THEN Len(input) ELSE n)

FrontInit ==
    /\ LifeStart
    /\ l_limit = 1
    /\ CodecIdle
    /\ QueueIdle
    /\ SendIdle
    /\ RxIdle
    /\ SelIdle
    /\ f_pc = "init"
    /\ f_status = 0
    /\ keep_open \in BOOLEAN
    /\ max_message_length \in {1, 2}
    /\ nc_sender \in BOOLEAN
    /\ nc_receiver \in BOOLEAN
    /\ nc_sender \/ nc_receiver
    /\ sender_thread = "unset"
    /\ nc_receiver_thread = "unset"
    /\ fs_pc = "none"
    /\ fs_cancel = FALSE
    /\ fs_packet = <<>>
    /\ fs_error = FALSE
    /\ fs_status = 0
    /\ f_stdin \in SeqsUpTo(StdinBytes, MaxStdin)
    /\ h_read = <<>>
    /\ f_sent = <<>>
    /\ fr_pc = "none"
    /\ fr_cancel = FALSE
    /\ fr_packet = <<>>
    /\ fr_status = 0
    /\ f_incoming \in SeqsUpTo(IncomingPackets, MaxIncoming)
    /\ h_recvd = <<>>
    /\ f_stdout = <<>>
    /\ f_stdout_open = TRUE
    /\ h_front = {}

\* main, sofinc.c:247-249: ret = sofi_init(&params); if (ret) return
MainInit(ok) ==
    /\ f_pc = "init"
    /\ IF ok
       THEN f_pc' = "create_sender" /\ UNCHANGED f_status
       ELSE f_pc' = "exit" /\ f_status' = 1
    /\ UNCHANGED <<sender_thread, nc_receiver_thread, optVars, senderLoopVars,
                   receiverLoopVars, fs_cancel, fr_cancel, h_front>>
    /\ UNCHANGED frontOthers

\* main, sofinc.c:251-260: pthread_create(&sender_thread, ...)
MainCreateSender(ok) ==
    /\ f_pc = "create_sender"
    /\ IF ~nc_sender
       THEN /\ f_pc' = "create_receiver"
            /\ UNCHANGED <<f_status, sender_thread, fs_pc>>
       ELSE IF ok
            THEN /\ sender_thread' = "created"
                 /\ fs_pc' = "read"
                 /\ f_pc' = "create_receiver"
                 /\ UNCHANGED f_status
            ELSE /\ f_status' = 1
                 /\ f_pc' = "out"
                 /\ UNCHANGED <<sender_thread, fs_pc>>
    /\ UNCHANGED <<nc_receiver_thread, optVars, fs_packet, fs_error, fs_status,
                   f_stdin, h_read, f_sent, receiverLoopVars, fs_cancel,
                   fr_cancel, h_front>>
    /\ UNCHANGED frontOthers

\* main, sofinc.c:261-274: pthread_create(&receiver_thread, ...); when it
\* fails the sender thread is cancelled and joined
MainCreateReceiver(ok) ==
    /\ f_pc = "create_receiver"
    /\ IF ~nc_receiver
       THEN /\ f_pc' = "join_sender"
            /\ UNCHANGED <<f_status, nc_receiver_thread, fr_pc, fs_cancel>>
       ELSE IF ok
            THEN /\ nc_receiver_thread' = "created"
                 /\ fr_pc' = "recv"
                 /\ f_pc' = "join_sender"
                 /\ UNCHANGED <<f_status, fs_cancel>>
            ELSE /\ f_status' = 1
                 /\ fs_cancel' = nc_sender
                 /\ f_pc' = IF nc_sender THEN "undo_sender" ELSE "out"
                 /\ UNCHANGED <<nc_receiver_thread, fr_pc>>
    /\ UNCHANGED <<sender_thread, optVars, senderLoopVars, fr_packet, fr_status,
                   f_incoming, h_recvd, f_stdout, f_stdout_open, fr_cancel,
                   h_front>>
    /\ UNCHANGED frontOthers

\* main, sofinc.c:267: pthread_join(sender_thread, NULL) after the failure
MainUndoSender ==
    /\ f_pc = "undo_sender"
    /\ fs_pc \in {"done", "cancelled"}
    /\ sender_thread' = "joined"
    /\ f_pc' = "out"
    /\ UNCHANGED <<f_status, nc_receiver_thread, optVars, senderLoopVars,
                   receiverLoopVars, fs_cancel, fr_cancel, h_front>>
    /\ UNCHANGED frontOthers

\* main, sofinc.c:276-281: pthread_join(sender_thread, &retval)
MainJoinSender ==
    /\ f_pc = "join_sender"
    /\ IF ~nc_sender
       THEN UNCHANGED <<f_status, sender_thread>>
       ELSE /\ fs_pc \in {"done", "cancelled"}
            /\ sender_thread' = "joined"
            /\ f_status' = IF fs_pc = "cancelled" \/ fs_status # 0
                           THEN 1 ELSE f_status
    /\ f_pc' = "join_receiver"
    /\ UNCHANGED <<nc_receiver_thread, optVars, senderLoopVars,
                   receiverLoopVars, fs_cancel, fr_cancel, h_front>>
    /\ UNCHANGED frontOthers

\* main, sofinc.c:282-287: pthread_join(receiver_thread, &retval)
MainJoinReceiver ==
    /\ f_pc = "join_receiver"
    /\ IF ~nc_receiver
       THEN UNCHANGED <<f_status, nc_receiver_thread>>
       ELSE /\ fr_pc \in {"done", "cancelled"}
            /\ nc_receiver_thread' = "joined"
            /\ f_status' = IF fr_pc = "cancelled" \/ fr_status # 0
                           THEN 1 ELSE f_status
    /\ f_pc' = "out"
    /\ UNCHANGED <<sender_thread, optVars, senderLoopVars, receiverLoopVars,
                   fs_cancel, fr_cancel, h_front>>
    /\ UNCHANGED frontOthers

\* main, sofinc.c:289-291: sofi_destroy(); return status
MainOut ==
    /\ f_pc = "out"
    /\ f_pc' = "exit"
    /\ UNCHANGED <<f_status, sender_thread, nc_receiver_thread, optVars,
                   senderLoopVars, receiverLoopVars, fs_cancel, fr_cancel,
                   h_front>>
    /\ UNCHANGED frontOthers

\* the process is running: main has neither returned nor been brought down
FrontRunning == f_pc \notin {"exit", "crashed"}

\* sender_loop, sofinc.c:26-29: fread; a length of 0 (the end of the input,
\* or an error) leaves the loop
SenderRead(err) ==
    /\ FrontRunning
    /\ fs_pc = "read"
    /\ IF err \/ f_stdin = <<>>
       THEN /\ fs_error' = err
            /\ fs_packet' = <<>>
            /\ fs_pc' = "last"
            /\ UNCHANGED <<f_stdin, h_read>>
       ELSE /\ fs_packet' = Fread(f_stdin, max_message_length)
            /\ f_stdin' = SubSeq(f_stdin,
                                 Len(Fread(f_stdin, max_message_length)) + 1,
                                 Len(f_stdin))
            /\ h_read' = Append(h_read, Fread(f_stdin, max_message_length))
            /\ fs_pc' = "send"
            /\ UNCHANGED fs_error
    /\ UNCHANGED <<mainVars, optVars, fs_status, f_sent, receiverLoopVars,
                   fs_cancel, fr_cancel, h_front>>
    /\ UNCHANGED frontOthers

\* sender_loop, sofinc.c:30: sofi_send(&packet)
SenderSend ==
    /\ FrontRunning
    /\ fs_pc = "send"
    /\ f_sent' = Append(f_sent, fs_packet)
    /\ fs_pc' = "read"
    /\ UNCHANGED <<mainVars, optVars, fs_packet, fs_error, fs_status, f_stdin,
                   h_read, receiverLoopVars, fs_cancel, fr_cancel, h_front>>
    /\ UNCHANGED frontOthers

\* sender_loop, sofinc.c:32-37: packet.len = 0; sofi_send(&packet); the
\* status is -1 after a read error
SenderLast ==
    /\ FrontRunning
    /\ fs_pc = "last"
    /\ fs_packet' = <<>>
    /\ f_sent' = Append(f_sent, <<>>)
    /\ fs_status' = IF fs_error THEN -1 ELSE fs_status
    /\ fs_pc' = "cancel"
    /\ UNCHANGED <<mainVars, optVars, fs_error, f_stdin, h_read,
                   receiverLoopVars, fs_cancel, fr_cancel, h_front>>
    /\ UNCHANGED frontOthers

\* sender_loop, sofinc.c:38-42: if (receiver) pthread_cancel(receiver_thread)
\* and assert(ret == 0).  On a pthread_t that pthread_create has not set the
\* call is undefined: the process is brought down (by the call, or by the
\* assertion on ESRCH), or goes on with nothing cancelled.
SenderCancelPeer ==
    /\ FrontRunning
    /\ fs_pc = "cancel"
    /\ fs_pc' = "done"
    /\ IF ~nc_receiver
       THEN UNCHANGED <<f_pc, fr_cancel, h_front>>
       ELSE IF nc_receiver_thread = "created"
            THEN /\ fr_cancel' = (fr_cancel \/ fr_pc \notin {"done", "cancelled"})
                 /\ UNCHANGED <<f_pc, h_front>>
            ELSE /\ h_front' = h_front \cup
                        {"cancel of receiver_thread before pthread_create"}
                 /\ f_pc' \in {f_pc, "crashed"}
                 /\ UNCHANGED fr_cancel
    /\ UNCHANGED <<f_status, sender_thread, nc_receiver_thread, optVars,
                   fs_packet, fs_error, fs_status, f_stdin, h_read, f_sent,
                   receiverLoopVars, fs_cancel>>
    /\ UNCHANGED frontOthers

\* the sender thread acts on a pending cancellation in fread or in the sleep
\* of sofi_send (sofinc.c:26, 30, 33)
SenderCancelled ==
    /\ FrontRunning
    /\ fs_cancel
    /\ fs_pc \in {"read", "send", "last"}
    /\ fs_pc' = "cancelled"
    /\ UNCHANGED <<mainVars, optVars, fs_packet, fs_error, fs_status, f_stdin,
                   h_read, f_sent, receiverLoopVars, fs_cancel, fr_cancel,
                   h_front>>
    /\ UNCHANGED frontOthers

\* receiver_loop, sofinc.c:52: sofi_recv(&packet) returns once the library
\* has a packet
ReceiverRecv ==
    /\ FrontRunning
    /\ fr_pc = "recv"
    /\ f_incoming # <<>>
    /\ fr_packet' = Head(f_incoming)
    /\ f_incoming' = Tail(f_incoming)
    /\ h_recvd' = Append(h_recvd, Head(f_incoming))
    /\ fr_pc' = "check"
    /\ UNCHANGED <<mainVars, optVars, senderLoopVars, fr_status, f_stdout,
                   f_stdout_open, fs_cancel, fr_cancel, h_front>>
    /\ UNCHANGED frontOthers

\* the mutant of ReceiverCheck: a zero-length packet stops the loop whatever
\* keep_open is
ReceiverCheck_AlwaysClose ==
    /\ FrontRunning
    /\ fr_pc = "check"
    /\ IF fr_packet = <<>>
       THEN f_stdout_open' = FALSE /\ fr_pc' = "cancel"
       ELSE fr_pc' = "write" /\ UNCHANGED f_stdout_open
    /\ UNCHANGED <<mainVars, optVars, senderLoopVars, fr_packet, fr_status,
                   f_incoming, h_recvd, f_stdout, fs_cancel, fr_cancel,
                   h_front>>
    /\ UNCHANGED frontOthers

\* receiver_loop, sofinc.c:53-57: if (packet.len == 0 && !keep_open) standard
\* output is closed and the loop left
ReceiverCheck ==
    /\ FrontRunning
    /\ fr_pc = "check"
    /\ IF fr_packet = <<>> /\ ~keep_open
       THEN f_stdout_open' = FALSE /\ fr_pc' = "cancel"
       ELSE fr_pc' = "write" /\ UNCHANGED f_stdout_open
    /\ UNCHANGED <<mainVars, optVars, senderLoopVars, fr_packet, fr_status,
                   f_incoming, h_recvd, f_stdout, fs_cancel, fr_cancel,
                   h_front>>
    /\ UNCHANGED frontOthers

\* receiver_loop, sofinc.c:58-64: fwrite and fflush; an error on standard
\* output makes the status -1 and leaves the loop
ReceiverWrite(err) ==
    /\ FrontRunning
    /\ fr_pc = "write"
    /\ IF err
       THEN /\ fr_status' = -1
            /\ fr_pc' = "cancel"
            /\ UNCHANGED f_stdout
       ELSE /\ f_stdout' = f_stdout \o fr_packet
            /\ fr_pc' = "recv"
            /\ UNCHANGED fr_status
    /\ UNCHANGED <<mainVars, optVars, senderLoopVars, fr_packet, f_incoming,
                   h_recvd, f_stdout_open, fs_cancel, fr_cancel, h_front>>
    /\ UNCHANGED frontOthers

\* receiver_loop, sofinc.c:66-70: if (sender) pthread_cancel(sender_thread)
\* and assert(ret == 0); main may have joined the sender thread already, and
\* the call on its pthread_t is then undefined
ReceiverCancelPeer ==
    /\ FrontRunning
    /\ fr_pc = "cancel"
    /\ fr_pc' = "done"
    /\ IF ~nc_sender
       THEN UNCHANGED <<f_pc, fs_cancel, h_front>>
       ELSE IF sender_thread = "created"
            THEN /\ fs_cancel' = (fs_cancel \/ fs_pc \notin {"done", "cancelled"})
                 /\ UNCHANGED <<f_pc, h_front>>
            ELSE /\ h_front' = h_front \cup
                        {"cancel of sender_thread after pthread_join"}
                 /\ f_pc' \in {f_pc, "crashed"}
                 /\ UNCHANGED fs_cancel
    /\ UNCHANGED <<f_status, sender_thread, nc_receiver_thread, optVars,
                   senderLoopVars, fr_packet, fr_status, f_incoming, h_recvd,
                   f_stdout, f_stdout_open, fr_cancel>>
    /\ UNCHANGED frontOthers

\* the receiver thread acts on a pending cancellation in the wait of
\* sofi_recv or in the write to standard output (sofinc.c:52, 58-59)
ReceiverCancelled ==
    /\ FrontRunning
    /\ fr_cancel
    /\ fr_pc \in {"recv", "write"}
    /\ fr_pc' = "cancelled"
    /\ UNCHANGED <<mainVars, optVars, senderLoopVars, fr_packet, fr_status,
                   f_incoming, h_recvd, f_stdout, f_stdout_open, fs_cancel,
                   fr_cancel, h_front>>
    /\ UNCHANGED frontOthers

FrontNext ==
    \/ \E ok \in BOOLEAN : MainInit(ok)
    \/ \E ok \in BOOLEAN : MainCreateSender(ok)
    \/ \E ok \in BOOLEAN : MainCreateReceiver(ok)
    \/ MainUndoSender
    \/ MainJoinSender
    \/ MainJoinReceiver
    \/ MainOut
    \/ \E err \in BOOLEAN : SenderRead(err)
    \/ SenderSend
    \/ SenderLast
    \/ SenderCancelPeer
    \/ SenderCancelled
    \/ ReceiverRecv
    \/ ReceiverCheck
    \/ \E err \in BOOLEAN : ReceiverWrite(err)
    \/ ReceiverCancelPeer
    \/ ReceiverCancelled

-----------------------------------------------------------------------------
vars == <<symbol_width, codecVars, queueVars, sendVars, lifeVars, rxVars,
          selVars, frontVars>>

SpecCodec == CodecInit /\ [][CodecNext]_vars

Spec == QueueInit /\ [][QueueNext]_vars

\* the steps of each thread that the scheduler has to run
DemodSteps == EnqLock \/ EnqBody \/ EnqUnlock

ClientSteps == DeqLock \/ DeqCheck \/ DeqUnlock \/ RecvDecode

\* the scheduler runs every thread that can run, and a thread waiting for
\* the mutex gets it when the mutex is released again and again; nothing
\* makes the demodulator hear a frame, the client call sofi_recv, or
\* pthread_cond_wait return without a signal
QueueFairness == SF_vars(DemodSteps) /\ SF_vars(ClientSteps)

SpecRecvFair == QueueInitFair /\ [][QueueNext]_vars /\ QueueFairness

SpecSend == SendInit /\ [][SendNext]_vars

SpecSendOne == SendInitOne /\ [][SendNext]_vars

SpecDemod == DemodInit /\ [][DemodNext]_vars

SpecDemodPair == DemodPairInit /\ [][DemodNext]_vars

SpecDemodLong == DemodLongInit /\ [][DemodLongNext]_vars

SpecSelect == SelectInit /\ [][SelectNext]_vars

SpecDuplex == DuplexInit /\ [][DuplexNext]_vars

SpecSplit == SplitInit /\ [][SplitNext]_vars

SpecLife == LifeInit /\ [][LifeNext]_vars

\* the steps of sofi_destroy once it has been called
DestroySteps == DestroyCancel \/ DestroyJoin \/ DestroyDrain \/ DestroyStop

\* the scheduler runs the demodulator, the client and the main thread inside
\* sofi_destroy; nothing makes the main thread call sofi_init or
\* sofi_destroy, the demodulator hear a frame or the client call sofi_recv
LifeFairness ==
    /\ SF_vars(DemodSteps)
    /\ SF_vars(ClientSteps)
    /\ SF_vars(DestroySteps)

SpecLifeFair == LifeInit /\ [][LifeNext]_vars /\ LifeFairness

SpecLifeSend == LifeSendInit /\ [][LifeSendNext]_vars

SpecRelife == RelifeInit /\ [][RelifeNext]_vars

SpecCancel == CancelInit /\ [][CancelNext]_vars

SpecFront == FrontInit /\ [][FrontNext]_vars

-----------------------------------------------------------------------------
(* Properties of the codec (SpecCodec). *)

\* C1: codec round trip.  When sofi_recv's decoding is applied to the raw
\* message that sofi_send built for a packet, unaltered, the CRCs agree and
\* the packet written out has the same len and the same first len payload
\* bytes, for every symbol width.
C1_RoundTrip ==
    (c_stage = "done" /\ c_alter.kind = "none") =>
        /\ c_out.ok
        /\ c_out.packet.len = c_packet.len
        /\ c_out.packet.payload = SubSeq(c_packet.payload, 1, c_packet.len)

C1_Witness ==
    /\ c_stage = "done"
    /\ c_alter.kind = "none"
    /\ c_out.ok
    /\ c_packet.len = MaxLen
    /\ Len(c_packet.payload) = MaxLen
    /\ symbol_width = 2

\* C3: a raw message holding fewer than (1 + len + 4) * symbols_per_byte
\* symbols, len being its first reassembled byte, is never accepted by
\* sofi_recv's decoding.
C3_ShortRejected ==
    (/\ c_stage = "done"
     /\ Len(c_msg) < (1 + RecvLen(c_msg, symbol_width) + 4)
                        * symbols_per_byte(symbol_width))
        => ~c_out.ok

\* C4 as stated: whichever single bit of the frame is inverted (length
\* byte, payload or CRC), decoding reports a CRC mismatch.
C4_AnyFlipRejected ==
    (c_stage = "done" /\ c_alter.kind = "flip") => ~c_out.ok

\* C4 as amended: when a single bit of a payload byte or of a CRC byte is
\* inverted (the length byte being left as sent), decoding reports a CRC
\* mismatch.
C4_PayloadOrCrcFlipRejected ==
    (c_stage = "done" /\ c_alter.kind = "flip" /\ c_alter.at >= 1) => ~c_out.ok

C4_Witness ==
    /\ c_stage = "done"
    /\ c_alter.kind = "flip"
    /\ c_alter.at = 1 + c_packet.len + 3
    /\ c_alter.bit = 7
    /\ c_packet.len > 0
    /\ ~c_out.ok

\* the j-th (0-based) symbol of byte b at width w, least significant first
SymbolOf(b, w, j) == (b \div Pow2(w * j)) % Pow2(w)

RECURSIVE SymbolSum(_, _, _)
SymbolSum(syms, w, j) ==
    IF j > Len(syms) THEN 0
    ELSE syms[j] * Pow2(w * (j - 1)) + SymbolSum(syms, w, j + 1)

\* C5: symbol ordering.  For every byte b, at the configured width w,
\* sofi_send's inner loop emits 8/w symbols, the j-th being
\* (b >> (w*j)) & ((1<<w)-1), and the symbols shifted back by w*j add up to
\* b; the message built for the packet is these symbols for each byte of
\* the frame, in the order of the bytes.
C5_SymbolOrdering ==
    (c_stage = "sent") =>
        LET w == symbol_width
            n == symbols_per_byte(w)
            buf == SendBuf(c_packet)
        IN  /\ \A b \in 0..255 :
                LET syms == SendByteSymbols(b, w, n)
                IN  /\ Len(syms) = n
                    /\ \A j \in 0..(n - 1) : syms[j + 1] = SymbolOf(b, w, j)
                    /\ SymbolSum(syms, w, 1) = b
            /\ Len(c_msg) = Len(buf) * n
            /\ \A i \in 0..(Len(buf) - 1), j \in 0..(n - 1) :
                c_msg[i * n + j + 1] = SymbolOf(buf[i + 1], w, j)

C5_Witness ==
    /\ c_stage = "sent"
    /\ symbol_width = 2
    /\ c_packet.len = 1
    /\ c_packet.payload[1] = 65
    /\ SubSeq(c_msg, 5, 8) = <<1, 0, 0, 1>>

-----------------------------------------------------------------------------
(* Properties of the receive queue (Spec, SpecRecvFair). *)

\* the bytes len || payload of a packet
PacketBytes(packet) == <<packet.len>> \o packet.payload

Last(seq) == seq[Len(seq)]

\* C2: a packet is returned by sofi_recv only from the decode step, for the
\* message just dequeued, and the CRC received in that message equals the
\* CRC-32 of the returned len byte and payload bytes; a dequeued message
\* whose CRCs differ is not returned, the caller's packet is left alone and
\* sofi_recv goes back to the dequeue.
C2_DeliveredCrcOk ==
    [][ /\ (h_delivered' # h_delivered) =>
              /\ r_pc = "decode"
              /\ r_pc' = "idle"
              /\ Len(h_dequeued) > 0
              /\ r_msg = Last(h_dequeued)
              /\ h_delivered' = Append(h_delivered, [packet |-> r_packet', msg |-> r_msg])
              /\ RecvCrc1(r_msg, symbol_width)
                   = crc32(PacketBytes(r_packet'), 1 + r_packet'.len)
        /\ (r_pc = "decode" /\ r_pc' # "decode"
               /\ RecvCrc1(r_msg, symbol_width) # RecvCrc2(r_msg, symbol_width)) =>
              /\ r_pc' = "lock"
              /\ UNCHANGED <<h_delivered, r_packet>>
        /\ (r_pc' = "idle" /\ r_pc # "idle") => (h_delivered' # h_delivered)
      ]_vars

\* a corrupt message was dequeued and passed over, and a later one delivered
C2_Witness ==
    /\ Len(h_delivered) >= 1
    /\ Len(h_dequeued) >= 2
    /\ ~h_accepted[1].valid
    /\ r_pc = "idle"

\* C7: receive order.  The messages dequeued are, in order, the messages
\* enqueue stored (those dropped on overflow are not among them), and the
\* packets sofi_recv has returned are, in order and once each, the packets
\* of the CRC-valid ones among the messages it has finished with.
C7_RecvOrder ==
    LET n == Len(h_dequeued)
        done == IF r_pc \in {"unlock", "decode"} THEN n - 1 ELSE n
        good == SelectSeq(SubSeq(h_accepted, 1, done), LAMBDA e : e.valid)
    IN  /\ n <= Len(h_accepted)
        /\ \A i \in 1..n : h_dequeued[i] = h_accepted[i].msg
        /\ Len(h_delivered) = Len(good)
        /\ \A i \in 1..Len(good) :
              /\ h_delivered[i].msg = good[i].msg
              /\ h_delivered[i].packet = RecvPacket(good[i].msg, symbol_width)

\* the queue overflowed, its start index wrapped, and packets from after
\* the wrap were delivered
C7_Witness ==
    /\ Len(h_dropped) >= 1
    /\ Len(h_delivered) >= 2
    /\ Len(h_dequeued) > RECV_QUEUE_CAP
    /\ Len(h_dequeued) > Len(h_delivered)

\* C8: the receive queue holds at most RECV_QUEUE_CAP messages and its
\* start index is below RECV_QUEUE_CAP, in every reachable state.
C8_QueueBounded ==
    /\ recv_queue_size \in 0..RECV_QUEUE_CAP
    /\ recv_queue_start \in 0..(RECV_QUEUE_CAP - 1)

C8_Witness ==
    /\ recv_queue_size = RECV_QUEUE_CAP
    /\ recv_queue_start > 0
    /\ d_pc = "body"

\* C9: when recv_queue_enqueue finds the queue full, the stored messages,
\* the start index and the size stay as they are, the incoming message is
\* dropped, and enqueue goes straight on to release the mutex.
C9_FullDrops ==
    [][ (d_pc = "body" /\ recv_queue_size = RECV_QUEUE_CAP) =>
            /\ UNCHANGED <<recv_queue, recv_queue_start, recv_queue_size>>
            /\ (d_pc' # d_pc) =>
                  /\ d_pc' = "unlock"
                  /\ h_dropped' = Append(h_dropped, d_msg)
                  /\ UNCHANGED h_accepted
      ]_vars

C9_Witness ==
    /\ Len(h_dropped) >= 1
    /\ Last(h_dropped) = d_msg
    /\ d_pc = "unlock"
    /\ recv_queue_size = RECV_QUEUE_CAP

\* a CRC-valid message is in the queue
ValidPending ==
    \E i \in (Len(h_dequeued) + 1)..Len(h_accepted) : h_accepted[i].valid

NumValidAccepted == Len(SelectSeq(h_accepted, LAMBDA e : e.valid))

\* C10: no lost wake-up.  Whenever a sofi_recv call is under way and a
\* CRC-valid message is in the queue, the call returns; and sofi_recv has
\* never returned more packets than valid messages were stored.
C10_NoLostWakeup ==
    /\ [](Len(h_delivered) <= NumValidAccepted)
    /\ ((r_pc # "idle" /\ ValidPending) ~> (r_pc = "idle"))

\* the client blocked in pthread_cond_wait on the empty queue and was
\* signalled by the enqueue of a valid message
C10_Witness ==
    /\ r_pc = "woken"
    /\ d_pc = "unlock"
    /\ recv_queue_size = 1
    /\ ValidPending
    /\ Len(h_dequeued) >= 1

-----------------------------------------------------------------------------
(* Properties of the sender (SpecSend). *)

\* C6: send FIFO.  The symbol runs the modulator has completed are the
\* messages of the sofi_send calls, in call order, whole and once each; the
\* run in progress is the beginning of the next message; outside
\* TRANSMITTING no run is in progress.
C6_SendFifo ==
    /\ Len(h_txdone) <= Len(h_sent)
    /\ \A k \in 1..Len(h_txdone) : h_txdone[k] = h_sent[k]
    /\ (s_state = "TRANSMITTING") =>
          /\ Len(h_txdone) < Len(h_sent)
          /\ Len(h_txcur) = s_index
          /\ h_txcur = SubSeq(h_sent[Len(h_txdone) + 1], 1, Len(h_txcur))
    /\ (s_state # "TRANSMITTING") => (h_txcur = <<>>)

C6_Witness ==
    /\ Len(h_txdone) = MaxSends
    /\ h_txdone[1] # h_txdone[2]
    /\ h_txdone[2] # h_txdone[3]


-----------------------------------------------------------------------------
(* Properties of the life cycle (SpecLife, SpecLifeFair, SpecLifeSend). *)

\* C11: when sofi_destroy is called while a client is blocked in sofi_recv
\* on an empty receive queue, that sofi_recv call eventually returns.
C11_DestroyUnblocks ==
    (l_pc = "cancel" /\ r_pc = "waiting" /\ recv_queue_size = 0) ~> (r_pc = "idle")

\* C12: when sofi_destroy has returned, every message that sofi_send had
\* queued has been transmitted to its last symbol, in order, and the
\* modulator is idle with the ring empty.
C12_DestroyDrains ==
    l_pc = "down" =>
        /\ h_txdone = h_sent
        /\ h_txcur = <<>>
        /\ s_state = "IDLE"
        /\ RingReadAvailable(s_widx, s_ridx) = 0

C12_Witness ==
    /\ l_pc = "down"
    /\ Len(h_sent) = MaxSendsLife
    /\ h_txdone = h_sent

\* C13: sofi_destroy, called once after a successful sofi_init, cancels and
\* joins the demodulator thread only if sofi_init created one and reads the
\* send ring only if sofi_init set it up.
C13_DestroySafe == l_pc # "crashed" /\ h_life = {}

\* the ranges C15 names
ParamsValid(p) ==
    /\ p.baud >= 1
    /\ p.sample_rate > 0
    /\ p.symbol_width \in SymbolWidths
    /\ p.recv_window_factor[1] > 0

\* C15: given a parameter out of range, sofi_init returns -1 and starts no
\* stream and no thread.
C15_InitValidates ==
    (l_pc # "start" /\ ~ParamsValid(params)) =>
        (init_ret = -1 /\ stream = "none" /\ receiver_thread = "none")

-----------------------------------------------------------------------------
(* Properties of the sender (SpecSend, SpecSendOne). *)

\* C14: a ring write of sofi_send fails only when the ring holds
\* SENDER_BUFFER_SIZE messages the modulator has not released; with room the
\* message is copied and published and sofi_send returns, whatever the
\* modulator is doing.
C14_SendBlocksOnlyWhenFull ==
    /\ [](t_pc \in {"copy", "publish"} => RingWriteAvailable(s_widx, s_ridx) >= 1)
    /\ [][/\ (~t_blocked /\ t_blocked') =>
                 RingReadAvailable(s_widx, s_ridx) = SENDER_BUFFER_SIZE
          /\ (t_pc = "write" /\ t_pc' # "write") =>
                 (t_pc' = "copy" /\ RingReadAvailable(s_widx, s_ridx) < SENDER_BUFFER_SIZE)
          /\ (t_pc = "copy" /\ t_pc' # "copy") => t_pc' = "publish"
          /\ (t_pc = "publish" /\ t_pc' # "publish") =>
                 (t_pc' = "idle" /\ s_widx' = RingAdvance(s_widx, 1))]_vars

\* the third call waits on the full ring; the first two returned before any
\* message was transmitted to its end
C14_Witness ==
    /\ t_pc = "write"
    /\ t_blocked
    /\ Len(h_sent) = SENDER_BUFFER_SIZE + 1
    /\ h_txdone = <<>>

\* the symbols of runs, in order
RunSymbols(runs) == [i \in 1..Len(runs) |-> runs[i][1]]

\* C16: modulator framing.  When sample_rate / baud is a whole number T, the
\* modulator writes, for a message of a packet with length byte L,
\* (1 + L + 4) * 8 / w runs of exactly T sine samples, one per symbol in
\* order, and the next sample is the first zero sample of the gap.
C16_ModulatorFraming ==
    (sample_rate % baud = 0) =>
        LET T == sample_rate \div baud
        IN  /\ \A i \in 1..Len(h_runs) :
                   IF i = Len(h_runs) /\ s_state = "TRANSMITTING"
                   THEN h_runs[i][2] \in 1..T
                   ELSE h_runs[i][2] = T
            /\ (s_state # "TRANSMITTING" /\ h_txdone # <<>>) =>
                   LET msg == h_sent[Len(h_txdone)]
                   IN  /\ RunSymbols(h_runs) = msg
                       /\ Len(h_runs) = (1 + RecvLen(msg, symbol_width) + 4)
                                            * symbols_per_byte(symbol_width)
                       /\ h_zero >= 1
            /\ s_state = "INTERPACKET_GAP" => h_zero = s_frame + 1
            /\ s_state = "TRANSMITTING" => h_zero = 0

\* a one-byte packet at width 1 has been sent: 48 runs
C16_Witness ==
    /\ sample_rate % baud = 0
    /\ symbol_width = 1
    /\ s_state = "INTERPACKET_GAP"
    /\ Len(h_runs) = 48
    /\ \A i \in 1..48 : h_runs[i][2] = sample_rate \div baud

\* sample_rate / baud rounded to the nearest whole number (halves upward)
RoundedSymbolTime == (2 * sample_rate + baud) \div (2 * baud)

\* C17: for every sample_rate and baud, each symbol is held for exactly
\* round(sample_rate / baud) samples.
C17_SymbolHoldRounded ==
    \A i \in 1..Len(h_runs) :
        (i < Len(h_runs) \/ s_state # "TRANSMITTING") =>
            h_runs[i][2] = RoundedSymbolTime

\* messages the modulator has begun
MessagesBegun == Len(h_txdone) + (IF s_state = "TRANSMITTING" THEN 1 ELSE 0)

\* C18: every message is followed by one gap before the next begins.  The
\* zero samples between the last sine sample of a message and the first of
\* the next are at least interpacket_gap() * sample_rate; a message ends
\* only into INTERPACKET_GAP, INTERPACKET_GAP ends only into IDLE, and a
\* message begins only from IDLE.
C18_GapBetweenMessages ==
    /\ [](/\ \A i \in 1..Len(h_gaps) : h_gaps[i] * baud >= 2 * sample_rate
          /\ Len(h_gaps) = (IF MessagesBegun = 0 THEN 0 ELSE MessagesBegun - 1))
    /\ [][/\ s_state = "TRANSMITTING" =>
                 s_state' \in {"TRANSMITTING", "INTERPACKET_GAP"}
          /\ s_state = "INTERPACKET_GAP" =>
                 s_state' \in {"INTERPACKET_GAP", "IDLE"}
          /\ h_txdone' # h_txdone =>
                 (s_state = "TRANSMITTING" /\ s_state' = "INTERPACKET_GAP")
          /\ (s_state' = "TRANSMITTING" /\ s_index' = 1 /\ s_index # 1) =>
                 s_state = "IDLE"]_vars

\* the second message was waiting in the ring throughout the gap of the first
C18_Witness ==
    /\ Len(h_gaps) = 1
    /\ s_state = "TRANSMITTING"
    /\ h_txdone = <<h_sent[1]>>
    /\ h_txcur = SubSeq(h_sent[2], 1, Len(h_txcur))

\* C19: after each message the modulator stays in INTERPACKET_GAP for
\* interpacket_gap_factor / baud * sample_rate samples (rounded up to whole
\* samples), interpacket_gap_factor being the configured factor.
C19_GapFromConfig ==
    (s_state = "IDLE" /\ h_txdone # <<>>) =>
        LET G == h_zero - 1
        IN  /\ G * baud >= params.interpacket_gap_factor * sample_rate
            /\ (G - 1) * baud < params.interpacket_gap_factor * sample_rate

-----------------------------------------------------------------------------
(* Properties of the demodulator (SpecDemod). *)

\* receiver_loop has read every window the input holds (a LISTEN window of
\* no samples never holds a carrier)
RxDone ==
    LET window_size == IF rx_state = "LISTEN" THEN receiver_window
                       ELSE SymbolWindow
    IN  window_size = 0 \/ rx_pos + window_size > InputLen

\* one message, which decodes to the packet sent, is enqueued once the input
\* is read, and sofi_recv returns that packet once and nothing else
OneFrameOnePacket ==
    /\ d_count <= 1
    /\ Len(h_delivered) <= 1
    /\ \A i \in 1..Len(h_delivered) : h_delivered[i].packet = rx_packet
    /\ (RxDone /\ d_pc = "loop") =>
           /\ rx_state = "LISTEN"
           /\ Len(h_accepted) = 1
           /\ h_accepted[1].valid
           /\ RecvPacket(h_accepted[1].msg, symbol_width) = rx_packet
    /\ (RxDone /\ d_pc = "loop" /\ recv_queue_size = 0 /\ h_dequeued # <<>>
             /\ r_pc \in {"idle", "waiting"}) =>
           Len(h_delivered) = 1

ShortWindow ==
    /\ sample_rate % baud = 0
    /\ receiver_window >= 1
    /\ 2 * receiver_window < SymbolWindow

-----------------------------------------------------------------------------
(* Properties of the demodulator on two frames (SpecDemodPair). *)

\* the input sample at which the second frame starts
StartB == rx_lead + Len(rx_frame) * rx_hold + rx_gap

-----------------------------------------------------------------------------
(* Properties of the modulator's phase and ring use (SpecSend). *)

\* a step in which sender_callback writes a sine sample
SineSample == h_runs' # h_runs

\* C22: the phase is advanced by the frequency of the symbol being sent at
\* every sine sample, the first sample of a symbol included (it continues
\* from the phase the symbol before it ended with), it changes at no other
\* step, and it always lies in [0, 2 * pi), which is 0..sample_rate - 1 in
\* units of 2 * pi / sample_rate.
C22_PhaseContinuity ==
    /\ [](s_phase \in 0..(sample_rate - 1))
    /\ [][IF SineSample
          THEN s_phase' = (s_phase + symbol_freqs(s_symbol')) % sample_rate
          ELSE s_phase' = s_phase]_vars

\* the first sample of a symbol after the first has been written from a
\* phase other than 0
C22_Witness ==
    /\ Len(h_runs) >= 2
    /\ h_runs[Len(h_runs)][2] = 1
    /\ s_phase # symbol_freqs(s_symbol) % sample_rate

\* C23 as stated: the read index of the send ring moves only in the step
\* from TRANSMITTING to INTERPACKET_GAP that ends a message's last symbol,
\* and then by one.
C23_AdvanceAtGapStart ==
    [][s_ridx' # s_ridx =>
           /\ s_state = "TRANSMITTING"
           /\ s_state' = "INTERPACKET_GAP"
           /\ s_ridx' = RingAdvance(s_ridx, 1)]_vars

-----------------------------------------------------------------------------
(* Properties of the audio callback and receiver_loop together            *)
(* (SpecDuplex). *)

\* C24: no buffer written to the receive ring holds a sample that was
\* captured in a frame the modulator handled in TRANSMITTING or
\* INTERPACKET_GAP, whatever the buffer sizes and wherever in a buffer the
\* modulator changes state.
C24_NoCaptureWhileSending == ~h_heard

\* C25: the callback never fails: receiver_callback always finds room for
\* the whole input buffer in the receive ring, however far behind the
\* demodulator is.
C25_CallbackNeverFails == cb_pc # "aborted"

\* C30: receiver_loop never goes round without sleeping or reading: every
\* round that does not sleep reads a window of at least one sample.
C30_NoBusySpin == "read nothing" \notin h_rx

-----------------------------------------------------------------------------
(* Properties of receiver_loop's states (SpecDemod). *)

\* a round of receiver_loop that read a LISTEN window
ListenRound == rx_state = "LISTEN" /\ rx_pos' # rx_pos

\* C26 as stated: a LISTEN window with a carrier moves the demodulator to
\* DEMODULATE with a new message that holds that window's symbol as its
\* first symbol; a silent LISTEN window leaves it in LISTEN, the short
\* window consumed and nothing else changed.
C26_ListenAppendsFirst ==
    [][ListenRound =>
           IF Classify(rx_pos, receiver_window) # -1
           THEN /\ rx_state' = "DEMODULATE"
                /\ rx_msg' = <<Classify(rx_pos, receiver_window)>>
                /\ rx_pos' = rx_pos + receiver_window
           ELSE /\ rx_state' = "LISTEN"
                /\ rx_msg' = rx_msg
                /\ rx_pos' = rx_pos + receiver_window]_vars

\* C26 as amended: the same, the new message being empty: the symbol of the
\* detecting window is not appended.
C26_ListenStartsEmpty ==
    [][ListenRound =>
           IF Classify(rx_pos, receiver_window) # -1
           THEN /\ rx_state' = "DEMODULATE"
                /\ rx_msg' = <<>>
                /\ rx_pos' = rx_pos + receiver_window
           ELSE /\ rx_state' = "LISTEN"
                /\ rx_msg' = rx_msg
                /\ rx_pos' = rx_pos + receiver_window]_vars

\* the carrier has just been detected, by a window that began in silence
C26_Witness ==
    /\ rx_state = "DEMODULATE"
    /\ rx_msg = <<>>
    /\ rx_pos > rx_lead
    /\ rx_pos - receiver_window < rx_lead
    /\ d_count = 0

-----------------------------------------------------------------------------
(* Properties of where messages are decoded (Spec). *)

\* C27: the receive queue only ever holds messages whose CRC matched: every
\* message recv_queue_enqueue stored decodes, and no decodable message is
\* dropped on overflow while a corrupt one holds a slot.
C27_QueueHoldsOnlyDecoded ==
    /\ \A i \in 1..Len(h_accepted) : h_accepted[i].valid
    /\ (d_pc = "unlock" /\ recv_queue_size = RECV_QUEUE_CAP
             /\ h_dropped # <<>> /\ Last(h_dropped) = d_msg
             /\ RecvCrcOk(d_msg, symbol_width)) =>
           \A i \in (Len(h_dequeued) + 1)..Len(h_accepted) :
               h_accepted[i].valid

-----------------------------------------------------------------------------
(* Properties of the raw message's length (SpecDemodLong). *)

\* a round of receiver_loop that read a DEMODULATE window with a carrier
DemodulateRound ==
    /\ rx_state = "DEMODULATE"
    /\ rx_pos' # rx_pos
    /\ Classify(rx_pos, SymbolWindow) # -1

-----------------------------------------------------------------------------
(* Properties of the symbol selection (SpecSelect). *)

\* the greatest of the strengths
MaxStrength(strengths) ==
    CHOOSE m \in {strengths[k] : k \in 1..Len(strengths)} :
        \A k \in 1..Len(strengths) : strengths[k] <= m

\* C29: the window is classified as the lowest symbol whose strength is the
\* greatest, if that strength is over 100, and as silence (-1) otherwise;
\* a strength of exactly 100 is silence.
C29_SymbolSelection ==
    sel_out # NotClassified =>
        IF MaxStrength(sel_in) > 100
        THEN /\ sel_out \in 0..(Len(sel_in) - 1)
             /\ sel_in[sel_out + 1] = MaxStrength(sel_in)
             /\ \A i \in 0..(sel_out - 1) : sel_in[i + 1] < MaxStrength(sel_in)
        ELSE sel_out = -1

\* a tie over the floor between two symbols, neither the first, has gone to
\* the lower one
C29_Witness ==
    /\ Len(sel_in) = 4
    /\ sel_in[2] = 101
    /\ sel_in[4] = 101
    /\ sel_in[1] = 100
    /\ sel_in[3] = 99
    /\ sel_out = 1


-----------------------------------------------------------------------------
(* What LISTEN consumes of a frame's first symbol (SpecDemod). *)

\* a LISTEN window has just detected the carrier of the frame
ListenDetected == rx_state = "DEMODULATE" /\ rx_msg = <<>> /\ d_count = 0

\* samples of the frame's first symbol among the samples read so far
FirstSymbolConsumed ==
    Cardinality({j \in 0..(rx_pos - 1) :
                     j >= rx_lead /\ j < rx_lead + rx_hold})

\* C31 as stated: when a LISTEN window detects the carrier, at most
\* window_size - 1 samples of the frame's first symbol have been consumed by
\* LISTEN windows before the first DEMODULATE window starts, for every
\* alignment of the LISTEN windows to the start of the carrier.
C31_ListenLosesLessThanWindow ==
    ListenDetected => FirstSymbolConsumed <= receiver_window - 1

\* C31 as amended: at most window_size samples (and at least one), every
\* window that holds a sample of the carrier detecting it: the detecting
\* window is consumed whole, and lies wholly in the first symbol when it
\* starts where the carrier starts.
C31_ListenLosesAtMostWindow ==
    ListenDetected =>
        /\ FirstSymbolConsumed >= 1
        /\ FirstSymbolConsumed <= receiver_window

\* the carrier has just been detected by a LISTEN window that started where
\* the carrier starts
C31_Witness ==
    /\ ListenDetected
    /\ receiver_window >= 2
    /\ rx_pos - receiver_window = rx_lead
    /\ FirstSymbolConsumed = receiver_window

-----------------------------------------------------------------------------
(* The ring slot under the modulator (SpecSend). *)

\* C34: at every sample boundary of the callback, while the modulator is in
\* TRANSMITTING or INTERPACKET_GAP the message it points to is the
\* unreleased head of the send ring (read-available >= 1), so a sofi_send
\* that copies a message into the ring at that time writes another slot;
\* and an empty send ring implies the modulator is IDLE.
C34_SlotHeldWhileTransmitting ==
    /\ s_state \in {"TRANSMITTING", "INTERPACKET_GAP"} =>
           /\ RingReadAvailable(s_widx, s_ridx) >= 1
           /\ s_msg = RingSlot(s_ridx)
    /\ (t_pc = "copy" /\ s_state # "IDLE") => RingSlot(s_widx) # s_msg
    /\ RingReadAvailable(s_widx, s_ridx) = 0 => s_state = "IDLE"

\* sofi_send is copying a message into the ring while the modulator
\* transmits the only other one
C34_Witness ==
    /\ t_pc = "copy"
    /\ s_state = "TRANSMITTING"
    /\ s_index >= 1
    /\ RingReadAvailable(s_widx, s_ridx) = 1
    /\ t_count = 2

-----------------------------------------------------------------------------
(* The symbol time on the two sides (SpecDemod). *)

\* C36: for every sample_rate and baud, the samples the modulator holds one
\* symbol for are the samples of one DEMODULATE window, so that the windows
\* keep their place relative to the symbol boundaries: every DEMODULATE
\* round reads as many samples as a symbol of the frame lasts, and starts
\* as far into a symbol as the round before.
C36_WindowIsSymbolHold ==
    [][(rx_state = "DEMODULATE" /\ rx_pos' # rx_pos) =>
           /\ rx_pos' - rx_pos = rx_hold
           /\ rx_hold = SymbolHold(sample_rate, baud)
           /\ (rx_pos' - rx_lead) % rx_hold = (rx_pos - rx_lead) % rx_hold]_vars

-----------------------------------------------------------------------------
(* The output and the callback's buffers (SpecSplit). *)

\* C35: the modulator's output does not depend on how the audio host splits
\* it into callback buffers: whatever frames_per_buffer the calls so far
\* were made with, the samples written and the modulator's state are those
\* of as many calls for one frame each on the same ring.
C35_SplitIndependent ==
    LET ref == OneFrameRun(Len(h_out))
    IN  /\ h_out = ref.out
        /\ s_state = ref.state
        /\ s_msg = ref.msg
        /\ s_index = ref.index
        /\ s_symbol = ref.symbol
        /\ s_frame = ref.frame
        /\ s_phase = ref.phase
        /\ s_ridx = ref.ridx

\* two messages have gone out in buffers of three frames, a message having
\* started and a symbol having ended inside a buffer
C35_Witness ==
    /\ Len(h_txdone) = 2
    /\ s_state = "IDLE"
    /\ cb_n = 3
    /\ cb_pc = "in"
    /\ cb_i = 2
    /\ Len(h_out) % 3 = 2
    /\ h_gaps # <<>>

-----------------------------------------------------------------------------
(* The buffers over repeated sofi_init and sofi_destroy calls. *)

\* C37: across any sequence of sofi_init and sofi_destroy calls, no buffer
\* pointer that an earlier call freed is passed to free again: each buffer
\* sofi_init allocated is freed exactly once.
C37_FreedOnce ==
    /\ "double free of sender_buffer_ptr" \notin h_life
    /\ "double free of receiver_buffer_ptr" \notin h_life
    /\ "double free of window_buffer" \notin h_life

\* C32: a sofi_init in which a step fails returns -1 with every step it
\* completed undone: the stream is not running, PortAudio is terminated, no
\* buffer is left allocated, no demodulator thread runs, and no buffer has
\* been freed twice on the way.
C32_FailedInitUndone ==
    [][(l_calls' = l_calls + 1 /\ l_pc' # "up")
           => /\ l_pc' = "failed"
              /\ init_ret' = -1
              /\ stream' # "running"
              /\ ~pa_initialized'
              /\ sender_buffer_ptr' # "allocated"
              /\ receiver_buffer_ptr' # "allocated"
              /\ window_buffer' # "allocated"
              /\ receiver_thread' # "running"
              /\ h_life' = h_life]_vars

\* C38: the sofi_init that succeeds after a sofi_destroy leaves the receive
\* queue empty and the modulator IDLE, so that no message demodulated before
\* the destroy is left for sofi_recv.
C38_CleanStart ==
    [][(l_pc = "down" /\ l_pc' = "up")
           => (recv_queue_size' = 0 /\ s_state' = "IDLE")]_vars

\* C39: the demodulator thread that sofi_destroy cancelled has ended
\* without recv_queue_lock: once it is joined the mutex is not the
\* demodulator's.
C39_CancelledWithoutLock ==
    receiver_thread = "joined" => recv_queue_lock # "demod"

-----------------------------------------------------------------------------
(* The front end's threads. *)

\* C40: with both directions on, sender_loop calls
\* pthread_cancel(receiver_thread) only after main's pthread_create has set
\* receiver_thread, under every interleaving.
C40_CancelAfterCreate ==
    "cancel of receiver_thread before pthread_create" \notin h_front

\* a is the beginning of b
IsPrefix(a, b) == Len(a) <= Len(b) /\ a = SubSeq(b, 1, Len(a))

\* the bytes of the payloads, one after the other
Flatten(packets) ==
    LET f[k \in 0..Len(packets)] ==
            IF k = 0 THEN <<>> ELSE f[k - 1] \o packets[k]
    IN  f[Len(packets)]

\* all of a sequence but its last element
AllButLast(q) == SubSeq(q, 1, Len(q) - 1)

\* the places of the zero-length packets among those sofi_recv returned
ZeroRecvd == {i \in 1..Len(h_recvd) : h_recvd[i] = <<>>}

\* the original wording of C33: where nothing has failed, a sender thread
\* that has ended has sent every chunk it read and then one zero-length
\* packet, and a receiver thread that has ended has written every payload
\* sofi_recv returned to it.
C33_EndedThreadsDidAll ==
    /\ (fs_pc \in {"done", "cancelled"} /\ f_status = 0)
           => f_sent = Append(h_read, <<>>)
    /\ (fr_pc \in {"done", "cancelled"} /\ fr_status = 0 /\ f_status = 0)
           => f_stdout = Flatten(h_recvd)

\* C33 (amended): the end-of-stream protocol of the front end, for threads
\* that their peer may cancel.  The chunks read are non-empty; the packets
\* sent are a beginning of the chunks read, in order, followed by one
\* zero-length packet, and all of it once sender_loop has left its loop by
\* itself.  Standard output holds the payloads sofi_recv returned, in
\* order, all of them or all but the last, and all of them whenever
\* receiver_loop is about to call sofi_recv.  receiver_loop leaves its loop
\* without a write error only at the first zero-length packet, with
\* keep_open unset; with keep_open set it leaves only on a write error.
C33_EndOfStreamProtocol ==
    /\ \A i \in 1..Len(h_read) :
           h_read[i] # <<>> /\ Len(h_read[i]) <= max_message_length
    /\ IsPrefix(f_sent, Append(h_read, <<>>))
    /\ fs_pc \in {"cancel", "done"} => f_sent = Append(h_read, <<>>)
    /\ f_stdout \in {Flatten(h_recvd), Flatten(AllButLast(h_recvd))}
    /\ fr_pc = "recv" => f_stdout = Flatten(h_recvd)
    /\ (fr_pc \in {"cancel", "done"} /\ fr_status = 0)
           => /\ ~keep_open
              /\ ZeroRecvd = {Len(h_recvd)}
              /\ ~f_stdout_open
    /\ (~keep_open /\ ZeroRecvd # {})
           => ZeroRecvd = {Len(h_recvd)} /\ fr_pc \in {"check", "cancel", "done"}
    /\ keep_open => (fr_pc \in {"cancel", "done"} => fr_status = -1)

\* both threads have run to their ends: two chunks and the closing packet
\* sent, a payload written and the stream closed on a zero-length packet
C33_Witness ==
    /\ fs_pc = "done"
    /\ Len(h_read) >= 2
    /\ f_sent = Append(h_read, <<>>)
    /\ fr_pc = "done"
    /\ Len(h_recvd) >= 2
    /\ f_stdout # <<>>
    /\ ~f_stdout_open
=============================================================================
